---- MODULE Spec2Model ----
(***************************************************************************)
(* Model of the scanner-service job orchestrator (domain.ScanService), its *)
(* in-memory store (repository.MemoryScanRepository) and the part of the   *)
(* nmap adapter that turns scan options into command arguments.            *)
(*                                                                         *)
(* Every Go statement that reads or writes state shared between            *)
(* goroutines (the *Scan object reachable through activeScans, the         *)
(* activeScans map, the repository maps) is one step, so that the          *)
(* interleavings of StartScan callers, CancelScan callers and the          *)
(* executeScan goroutines are those the Go scheduler can produce.          *)
(* Statements executed under ScanService.mu or MemoryScanRepository.mu     *)
(* form one step.                                                          *)
(***************************************************************************)
EXTENDS Integers, Sequences, FiniteSets, TLC

\* ------------------------------------------------------------------ bounds
\* cfg.Nmap.MaxConcurrentScans, the maxConcurrentScans given to NewScanService
MaxConcurrentScans == 1
\* number of StartScan invocations explored
MaxStartCalls == 2
\* number of CancelScan invocations explored
MaxCancelCalls == 1
\* number of GetScan invocations explored
MaxGetCalls == 1

StartCallers == 1..MaxStartCalls
CancelCallers == 1..MaxCancelCalls
GetCallers == 1..MaxGetCalls
\* uuid.New() in StartScan: the n-th admitted scan gets the fresh id n
ScanIds == 1..MaxStartCalls
Users == {"u1"}
\* an id that uuid.New() never returned
UnknownScanId == 0

\* the callers' variables of type *Scan or *ScanResult
MaxHolders == 2
Holders == 1 .. MaxHolders
\* the memory cells that can be allocated
MaxAddrs == 3
\* the nil slice and the nil pointer
NilAddr == 0
\* the ids of the structs handed to the repository
StructIds == {1}

\* the most hosts in a report of nmap
MaxHosts == 2

\* the last reading of time.Now()
MaxClock == 3
\* MemoryScanRepository.retentionPeriod
RetentionPeriod == 1
\* the largest limit and offset a ListScans call is made with
MaxPage == 2
\* the owners of the scans that clients of the repository save
ListUsers == {"u1", "u2"}
\* the values of a string field, a string element and a time.Time
FieldValues == {"a", "b"}

\* ------------------------------------------------------- program constants
ScanStatusPending == "PENDING"
ScanStatusRunning == "RUNNING"
ScanStatusCompleted == "COMPLETED"
ScanStatusFailed == "FAILED"
ScanStatusCancelled == "CANCELLED"

TimingParanoid == 0
TimingNormal == 3
TimingInsane == 5
\* 5 * time.Minute, in seconds
DefaultTimeout == 300
DefaultPorts == "1-1000"

ErrInternal == "INTERNAL"
ErrNotFound == "NOT_FOUND"
ErrInvalidInput == "INVALID_INPUT"
ErrTimeout == "TIMEOUT"
ErrUnavailable == "UNAVAILABLE"
\* the nil error
NoErr == ""

\* ------------------------------------------------------------------ inputs
\* domain.ScanOptions; Timeout is in seconds
MkOptions(target, ports, scanType, timing, sd, os, sc, extra, timeout) ==
    [Target |-> target, Ports |-> ports, ScanType |-> scanType,
     TimingTemplate |-> timing, ServiceDetection |-> sd, OSDetection |-> os,
     ScriptScan |-> sc, ExtraOptions |-> extra, Timeout |-> timeout]

\* the option sets the StartScan callers choose from
OptionChoices ==
    { MkOptions("10.0.0.5", "22,80", "CONNECT", 4, FALSE, FALSE, FALSE, <<>>, 5),
      MkOptions("", "22,80", "CONNECT", 4, FALSE, FALSE, FALSE, <<>>, 5),
      MkOptions("10.0.0.5", "", "", 9, FALSE, FALSE, FALSE, <<>>, 0) }

VARIABLES
    activeScans,   \* ScanService.activeScans: the ids registered (each maps to scanObj[id])
    scanObj,       \* the *Scan objects allocated by StartScan, by id
    repoScans,     \* MemoryScanRepository.scans: id -> stored copy
    repoResults,   \* MemoryScanRepository.scanResults: result id -> stored copy
    startCalls,    \* the StartScan invocations: position, arguments, return values
    cancelCalls,   \* the CancelScan invocations: position, argument, locals, return value
    tasks,         \* the executeScan goroutines, by scan id: position and locals
    getCalls,      \* the GetScan invocations: position, argument, return values
    clock,         \* time.Now(); a timestamp field holds 0 when it is nil
    heap,          \* the memory cells behind slices and *time.Time pointers, by address
    storedScans,   \* MemoryScanRepository.scans with its references: id -> struct
    storedResults, \* MemoryScanRepository.scanResults with its references: id -> struct
    held,          \* the structs that the callers of the repository hold
    repoRet,       \* what the last direct call of a repository method returned, or
                   \* what the last run of the reaper logged
    adapterCall,   \* NmapAdapter.ExecuteScan after cmd.Run: position, report, result
    mu,            \* MemoryScanRepository.mu: who holds it over several steps
    reaper         \* one tick of cleanupOldScans taken statement by statement:
                   \* position, cutoffTime, the keys its loop has visited

\* the orchestrator's state, in which a scan is a value
serviceVars == <<activeScans, scanObj, repoScans, repoResults, startCalls, cancelCalls, tasks, getCalls, clock>>

\* the repository's state with the references that its structs carry
storeVars == <<heap, storedScans, storedResults, held>>

vars == <<serviceVars, storeVars, repoRet, adapterCall, mu, reaper>>

\* ----------------------------------------------------------------- helpers
\* len(s.activeScans)
Len_activeScans == Cardinality(activeScans)

\* uuid.New().String() in StartScan
NewScanId == Cardinality(DOMAIN scanObj) + 1

\* uuid.New().String() in NmapAdapter.ExecuteScan: one fresh id per invocation,
\* and executeScan invokes the adapter once per scan
NewResultId(id) == id

\* fmt.Sprintf("-T%d", t)
TimingFlag(t) == <<"-T0", "-T1", "-T2", "-T3", "-T4", "-T5">>[t + 1]

\* buildCommandArgs leaving out the service detection flag when the scan
\* type has added it already
BuildCommandArgsVersionOnce(options) ==
    <<options.Target>>
    \o (IF options.Ports # "" THEN <<"-p", options.Ports>> ELSE <<>>)
    \o (CASE options.ScanType = "SYN" -> <<"-sS">>
          [] options.ScanType = "CONNECT" -> <<"-sT">>
          [] options.ScanType = "UDP" -> <<"-sU">>
          [] options.ScanType = "VERSION" -> <<"-sV">>
          [] options.ScanType = "SCRIPT" -> <<"-sC">>
          [] options.ScanType = "ALL" -> <<"-A">>
          [] OTHER -> <<>>)
    \o (IF options.TimingTemplate >= TimingParanoid /\ options.TimingTemplate <= TimingInsane
        THEN <<TimingFlag(options.TimingTemplate)>> ELSE <<>>)
    \o (IF options.ServiceDetection /\ options.ScanType # "VERSION" THEN <<"-sV">> ELSE <<>>)
    \o (IF options.OSDetection THEN <<"-O">> ELSE <<>>)
    \o (IF options.ScriptScan THEN <<"-sC">> ELSE <<>>)
    \o options.ExtraOptions

\* NmapAdapter.buildCommandArgs
BuildCommandArgs(options) ==
    <<options.Target>>
    \o (IF options.Ports # "" THEN <<"-p", options.Ports>> ELSE <<>>)
    \o (CASE options.ScanType = "SYN" -> <<"-sS">>
          [] options.ScanType = "CONNECT" -> <<"-sT">>
          [] options.ScanType = "UDP" -> <<"-sU">>
          [] options.ScanType = "VERSION" -> <<"-sV">>
          [] options.ScanType = "SCRIPT" -> <<"-sC">>
          [] options.ScanType = "ALL" -> <<"-A">>
          [] OTHER -> <<>>)
    \o (IF options.TimingTemplate >= TimingParanoid /\ options.TimingTemplate <= TimingInsane
        THEN <<TimingFlag(options.TimingTemplate)>> ELSE <<>>)
    \o (IF options.ServiceDetection THEN <<"-sV">> ELSE <<>>)
    \o (IF options.OSDetection THEN <<"-O">> ELSE <<>>)
    \o (IF options.ScriptScan THEN <<"-sC">> ELSE <<>>)
    \o options.ExtraOptions

\* validateScanOptions without the check of the target
ValidateScanOptionsNoTargetCheck(options) ==
    [err |-> NoErr,
     local |-> [options EXCEPT
         !.Timeout = IF options.Timeout = 0 THEN DefaultTimeout ELSE @,
         !.Ports = IF options.Ports = "" THEN DefaultPorts ELSE @,
         !.TimingTemplate = IF @ < TimingParanoid \/ @ > TimingInsane
                            THEN TimingNormal ELSE @]]

\* ScanService.validateScanOptions.  The parameter is a ScanOptions value, so
\* the defaults are assigned to the callee's own copy (local); the caller
\* receives only the error.
ValidateScanOptions(options) ==
    IF options.Target = ""
    THEN [err |-> ErrInvalidInput, local |-> options]
    ELSE [err |-> NoErr,
          local |-> [options EXCEPT
              !.Timeout = IF options.Timeout = 0 THEN DefaultTimeout ELSE @,
              !.Ports = IF options.Ports = "" THEN DefaultPorts ELSE @,
              !.TimingTemplate = IF @ < TimingParanoid \/ @ > TimingInsane
                                 THEN TimingNormal ELSE @]]

\* UpdateScanMap storing a scan that has no record
UpdateScanMapCreates(scan) == (scan.ID :> scan) @@ repoScans

\* MemoryScanRepository.UpdateScan: the error it returns, and the map after it
UpdateScanErr(scan) == IF scan.ID \in DOMAIN repoScans THEN NoErr ELSE ErrNotFound
UpdateScanMap(scan) ==
    IF scan.ID \in DOMAIN repoScans
    THEN [repoScans EXCEPT ![scan.ID] = scan]
    ELSE repoScans

\* MemoryScanRepository.SaveScan
SaveScanMap(scan) == (scan.ID :> scan) @@ repoScans

\* MemoryScanRepository.SaveScanResult
SaveScanResultMap(result) == (result.ID :> result) @@ repoResults

\* a caller's variable that holds no struct yet
NoStruct == [kind |-> "none", ID |-> 0, Status |-> "", Elems |-> NilAddr, CompletedAt |-> NilAddr]

\* no repository method has been called directly
NoReturn ==
    [op |-> "", id |-> 0, err |-> NoErr,
     userID |-> "", limit |-> 0, offset |-> 0, scans |-> <<>>,
     cleanedScans |-> {}, cleanedResults |-> {}]

\* ExecuteScan has not yet read the report of nmap
NoAdapterCall == [pc |-> "idle", scanOptions |-> <<>>, args |-> <<>>, nmapXML |-> <<>>, result |-> <<>>]

\* ------------------------------------------------------------------- Init
\* MemoryScanRepository.mu when no goroutine holds it
Unlocked == "unlocked"

\* the reaper between two ticks of its ticker
NoTick == [pc |-> "idle", cutoffTime |-> 0, visited |-> {}, cleanedScans |-> {}, cleanedResults |-> {}]

IdleStart == [pc |-> "idle", ctxErr |-> NoErr, userID |-> "", options |-> <<>>, scan |-> 0, err |-> NoErr]
IdleCancel == [pc |-> "idle", id |-> 0, ref |-> "", copy |-> <<>>, err |-> NoErr]
NoTask == [pc |-> "none", now |-> 0, result |-> <<>>, err |-> NoErr, errType |-> NoErr, ctxErr |-> NoErr]
IdleGet == [pc |-> "idle", id |-> 0, ref |-> "", scan |-> <<>>, err |-> NoErr]

Init ==
    /\ activeScans = {}
    /\ scanObj = <<>>
    /\ repoScans = <<>>
    /\ repoResults = <<>>
    /\ startCalls = [c \in StartCallers |-> IdleStart]
    /\ cancelCalls = [c \in CancelCallers |-> IdleCancel]
    /\ tasks = [id \in ScanIds |-> NoTask]
    /\ getCalls = [g \in GetCallers |-> IdleGet]
    /\ clock = 1
    /\ heap = <<>>
    /\ storedScans = <<>>
    /\ storedResults = <<>>
    /\ held = [h \in Holders |-> NoStruct]
    /\ repoRet = NoReturn
    /\ adapterCall = NoAdapterCall
    /\ mu = Unlocked
    /\ reaper = NoTick

\* -------------------------------------------------------------- StartScan
\* StartScan, lines 56-60: the call is made and the options are validated
StartScanValidate(c, userID, options) ==
    /\ startCalls[c].pc = "idle"
    \* the invocations are numbered in the order in which they are made
    /\ \A b \in StartCallers : b < c => startCalls[b].pc # "idle"
    /\ LET v == ValidateScanOptions(options) IN
       startCalls' = [startCalls EXCEPT ![c] =
           IF v.err # NoErr
           THEN [@ EXCEPT !.pc = "done", !.userID = userID, !.options = options, !.err = v.err]
           ELSE [@ EXCEPT !.pc = "admit", !.userID = userID, !.options = options]]
    /\ UNCHANGED <<activeScans, scanObj, repoScans, repoResults, cancelCalls, tasks, getCalls, clock, storeVars, repoRet, adapterCall, mu, reaper>>

\* the Scan created by StartScan call c, lines 70-78
NewScan(c) ==
    [ID |-> NewScanId,
     UserID |-> startCalls[c].userID,
     Options |-> startCalls[c].options,
     Status |-> ScanStatusPending,
     Progress |-> 0,
     CreatedAt |-> clock,
     StartedAt |-> 0,
     CompletedAt |-> 0,
     Error |-> "",
     ResultID |-> 0]

\* StartScanAdmit with the admission check off by one (> for >=)
StartScanAdmitOffByOne(c) ==
    /\ startCalls[c].pc = "admit"
    /\ IF Len_activeScans > MaxConcurrentScans
       THEN /\ startCalls' = [startCalls EXCEPT ![c].pc = "done", ![c].err = ErrUnavailable]
            /\ UNCHANGED <<activeScans, scanObj>>
       ELSE /\ scanObj' = (NewScanId :> NewScan(c)) @@ scanObj
            /\ activeScans' = activeScans \cup {NewScanId}
            /\ startCalls' = [startCalls EXCEPT ![c].pc = "save", ![c].scan = NewScanId]
    /\ UNCHANGED <<repoScans, repoResults, cancelCalls, tasks, getCalls, clock, storeVars, repoRet, adapterCall, mu, reaper>>

\* StartScanAdmit registering the Scan before the admission check and leaving
\* it registered when the call is rejected
StartScanAdmitRegistersFirst(c) ==
    /\ startCalls[c].pc = "admit"
    /\ scanObj' = (NewScanId :> NewScan(c)) @@ scanObj
    /\ activeScans' = activeScans \cup {NewScanId}
    /\ IF Len_activeScans >= MaxConcurrentScans
       THEN startCalls' = [startCalls EXCEPT ![c].pc = "done", ![c].err = ErrUnavailable]
       ELSE startCalls' = [startCalls EXCEPT ![c].pc = "save", ![c].scan = NewScanId]
    /\ UNCHANGED <<repoScans, repoResults, cancelCalls, tasks, getCalls, clock, storeVars, repoRet, adapterCall, mu, reaper>>

\* StartScan, lines 62-82: under s.mu, the admission check, the creation of the
\* Scan and its registration in activeScans
StartScanAdmit(c) ==
    /\ startCalls[c].pc = "admit"
    /\ IF Len_activeScans >= MaxConcurrentScans
       THEN /\ startCalls' = [startCalls EXCEPT ![c].pc = "done", ![c].err = ErrUnavailable]
            /\ UNCHANGED <<activeScans, scanObj>>
       ELSE /\ scanObj' = (NewScanId :> NewScan(c)) @@ scanObj
            /\ activeScans' = activeScans \cup {NewScanId}
            /\ startCalls' = [startCalls EXCEPT ![c].pc = "save", ![c].scan = NewScanId]
    /\ UNCHANGED <<repoScans, repoResults, cancelCalls, tasks, getCalls, clock, storeVars, repoRet, adapterCall, mu, reaper>>

\* StartScan, lines 84-95: SaveScan (MemoryScanRepository.SaveScan returns no
\* error), the launch of the executeScan goroutine, and the return
StartScanSave(c) ==
    /\ startCalls[c].pc = "save"
    /\ LET id == startCalls[c].scan IN
       /\ repoScans' = SaveScanMap(scanObj[id])
       /\ tasks' = [tasks EXCEPT ![id].pc = "setRunning"]
       /\ startCalls' = [startCalls EXCEPT ![c].pc = "done"]
    /\ UNCHANGED <<activeScans, scanObj, repoResults, cancelCalls, getCalls, clock, storeVars, repoRet, adapterCall, mu, reaper>>

\* StartScanSaveFails without the rollback of the registration
StartScanSaveFailsNoRollback(c) ==
    /\ startCalls[c].pc = "save"
    /\ startCalls' = [startCalls EXCEPT ![c].pc = "done", ![c].scan = 0, ![c].err = ErrInternal]
    /\ UNCHANGED <<activeScans, scanObj, repoScans, repoResults, cancelCalls, tasks, getCalls, clock, storeVars, repoRet, adapterCall, mu, reaper>>

\* StartScan, lines 85-90, with a ScanRepository whose SaveScan returns an
\* error: the registration is deleted under s.mu and StartScan returns
\* nil, Internal
StartScanSaveFails(c) ==
    /\ startCalls[c].pc = "save"
    /\ activeScans' = activeScans \ {startCalls[c].scan}
    /\ startCalls' = [startCalls EXCEPT ![c].pc = "done", ![c].scan = 0, ![c].err = ErrInternal]
    /\ UNCHANGED <<scanObj, repoScans, repoResults, cancelCalls, tasks, getCalls, clock, storeVars, repoRet, adapterCall, mu, reaper>>

\* ------------------------------------------------------------ executeScan
\* The goroutine of scan id holds the pointer scan = scanObj[id]; line 190
\* (the context derived from scan.Options.Timeout) touches no shared state and
\* is part of the launch.

\* the statement of executeScan at position pc of task id is an assignment to
\* fields of *scan
TaskWrites(id, from, to, obj) ==
    /\ tasks[id].pc = from
    /\ scanObj' = [scanObj EXCEPT ![id] = obj]
    /\ tasks' = [tasks EXCEPT ![id].pc = to]
    /\ UNCHANGED <<activeScans, repoScans, repoResults, startCalls, cancelCalls, getCalls, clock, storeVars, repoRet, adapterCall, mu, reaper>>

\* lines 194-195: now := time.Now(); scan.Status = ScanStatusRunning
ExecSetRunning(id) ==
    /\ tasks[id].pc = "setRunning"
    /\ scanObj' = [scanObj EXCEPT ![id].Status = ScanStatusRunning]
    /\ tasks' = [tasks EXCEPT ![id].pc = "setStartedAt", ![id].now = clock]
    /\ UNCHANGED <<activeScans, repoScans, repoResults, startCalls, cancelCalls, getCalls, clock, storeVars, repoRet, adapterCall, mu, reaper>>

\* line 196: scan.StartedAt = &now
ExecSetStartedAt(id) ==
    TaskWrites(id, "setStartedAt", "setProgress0", [scanObj[id] EXCEPT !.StartedAt = tasks[id].now])

\* line 197: scan.Progress = 0
ExecSetProgress0(id) ==
    TaskWrites(id, "setProgress0", "updateRunning", [scanObj[id] EXCEPT !.Progress = 0])

\* lines 200-205: UpdateScan(scan); an error is only logged
ExecUpdateRunning(id) ==
    /\ tasks[id].pc = "updateRunning"
    /\ repoScans' = UpdateScanMap(scanObj[id])
    /\ tasks' = [tasks EXCEPT ![id].pc = "execute"]
    /\ UNCHANGED <<activeScans, scanObj, repoResults, startCalls, cancelCalls, getCalls, clock, storeVars, repoRet, adapterCall, mu, reaper>>

\* context.Canceled and context.DeadlineExceeded, the values of ctx.Err()
ContextCanceled == "context canceled"
ContextDeadlineExceeded == "context deadline exceeded"

\* grpc.go lines 250-267: the error returned when cmd.Run has failed and
\* ctx.Err() is ctxErr
ClassifyRunError(ctxErr) ==
    IF ctxErr = ContextCanceled
    THEN [ok |-> FALSE, err |-> ErrTimeout, msg |-> "scan was cancelled", ctxErr |-> ctxErr]
    ELSE IF ctxErr = ContextDeadlineExceeded
    THEN [ok |-> FALSE, err |-> ErrTimeout, msg |-> "scan timed out", ctxErr |-> ctxErr]
    ELSE [ok |-> FALSE, err |-> ErrInternal, msg |-> "nmap scan failed", ctxErr |-> ctxErr]

\* The outcomes of NmapAdapter.ExecuteScan(ctx, options), lines 217-296 of
\* grpc.go.  The context carries the deadline now + options.Timeout: with a
\* Timeout of 0 it is expired before the command starts, cmd.Run fails and
\* ctx.Err() is DeadlineExceeded, or Canceled when the caller's context had
\* ended before.  Otherwise the command succeeds, fails, is killed at the
\* deadline or is killed because the caller's context ended.
ExecuteScanOutcomes(options) ==
    IF options.Timeout = 0
    THEN { ClassifyRunError(e) : e \in {ContextDeadlineExceeded, ContextCanceled} }
    ELSE { [ok |-> TRUE, err |-> NoErr, msg |-> "", ctxErr |-> NoErr] } \cup
         { ClassifyRunError(e) : e \in {NoErr, ContextDeadlineExceeded, ContextCanceled} }

\* line 213: adapter.ExecuteScan returns result, err (lines 285-286 of
\* grpc.go stamp the result with a fresh id and the command)
ExecExecuteScan(id) ==
    /\ tasks[id].pc = "execute"
    /\ \E o \in ExecuteScanOutcomes(scanObj[id].Options) :
         tasks' = [tasks EXCEPT ![id] =
             IF o.ok
             THEN [pc |-> "setCompleted", now |-> tasks[id].now,
                   result |-> [ID |-> NewResultId(id), ScanID |-> 0, UserID |-> "",
                               Command |-> BuildCommandArgs(scanObj[id].Options)],
                   err |-> NoErr, errType |-> NoErr, ctxErr |-> NoErr]
             ELSE [pc |-> "setFailed", now |-> tasks[id].now, result |-> <<>>, err |-> o.msg,
                   errType |-> o.err, ctxErr |-> o.ctxErr]]
    /\ UNCHANGED <<activeScans, scanObj, repoScans, repoResults, startCalls, cancelCalls, getCalls, clock, storeVars, repoRet, adapterCall, mu, reaper>>

\* ExecSetFailed without the assignment of line 222
ExecSetFailedKeepsStatus(id) ==
    TaskWrites(id, "setFailed", "setError", scanObj[id])

\* line 222: scan.Status = ScanStatusFailed
ExecSetFailed(id) ==
    TaskWrites(id, "setFailed", "setError", [scanObj[id] EXCEPT !.Status = ScanStatusFailed])

\* ExecSetError without the assignment of line 223
ExecSetErrorDropsMessage(id) ==
    TaskWrites(id, "setError", "setCompletedAt", scanObj[id])

\* line 223: scan.Error = err.Error()
ExecSetError(id) ==
    TaskWrites(id, "setError", "setCompletedAt", [scanObj[id] EXCEPT !.Error = tasks[id].err])

\* line 231: scan.Status = ScanStatusCompleted
ExecSetCompleted(id) ==
    TaskWrites(id, "setCompleted", "setProgress100", [scanObj[id] EXCEPT !.Status = ScanStatusCompleted])

\* line 232: scan.Progress = 100
ExecSetProgress100(id) ==
    TaskWrites(id, "setProgress100", "setResultID", [scanObj[id] EXCEPT !.Progress = 100])

\* line 233: scan.ResultID = result.ID
ExecSetResultID(id) ==
    TaskWrites(id, "setResultID", "saveResult", [scanObj[id] EXCEPT !.ResultID = tasks[id].result.ID])

\* lines 236-245: the result is tagged with the scan's id and owner and saved
ExecSaveResult(id) ==
    /\ tasks[id].pc = "saveResult"
    /\ LET result == [tasks[id].result EXCEPT !.ScanID = scanObj[id].ID,
                                              !.UserID = scanObj[id].UserID] IN
       /\ repoResults' = SaveScanResultMap(result)
       /\ tasks' = [tasks EXCEPT ![id].pc = "setCompletedAt", ![id].result = result]
    /\ UNCHANGED <<activeScans, scanObj, repoScans, startCalls, cancelCalls, getCalls, clock, storeVars, repoRet, adapterCall, mu, reaper>>

\* lines 249-250: scan.CompletedAt = &completedAt
ExecSetCompletedAt(id) ==
    TaskWrites(id, "setCompletedAt", "updateFinal", [scanObj[id] EXCEPT !.CompletedAt = clock])

\* lines 253-258: UpdateScan(scan); an error is only logged
ExecUpdateFinal(id) ==
    /\ tasks[id].pc = "updateFinal"
    /\ repoScans' = UpdateScanMap(scanObj[id])
    /\ tasks' = [tasks EXCEPT ![id].pc = "remove"]
    /\ UNCHANGED <<activeScans, scanObj, repoResults, startCalls, cancelCalls, getCalls, clock, storeVars, repoRet, adapterCall, mu, reaper>>

\* ExecRemove without the delete: the goroutine ends and leaves the scan
\* registered
ExecRemoveKeepsRegistration(id) ==
    /\ tasks[id].pc = "remove"
    /\ tasks' = [tasks EXCEPT ![id].pc = "done"]
    /\ UNCHANGED <<activeScans, scanObj, repoScans, repoResults, startCalls, cancelCalls, getCalls, clock, storeVars, repoRet, adapterCall, mu, reaper>>

\* lines 261-263: delete(s.activeScans, scan.ID) under s.mu; the goroutine ends
ExecRemove(id) ==
    /\ tasks[id].pc = "remove"
    /\ activeScans' = activeScans \ {id}
    /\ tasks' = [tasks EXCEPT ![id].pc = "done"]
    /\ UNCHANGED <<scanObj, repoScans, repoResults, startCalls, cancelCalls, getCalls, clock, storeVars, repoRet, adapterCall, mu, reaper>>

\* lines 200-205 with a ScanRepository whose UpdateScan returns an error: the
\* error is logged and the goroutine goes on
ExecUpdateRunningFails(id) ==
    /\ tasks[id].pc = "updateRunning"
    /\ tasks' = [tasks EXCEPT ![id].pc = "execute"]
    /\ UNCHANGED <<activeScans, scanObj, repoScans, repoResults, startCalls, cancelCalls, getCalls, clock, storeVars, repoRet, adapterCall, mu, reaper>>

\* lines 236-245 with a ScanRepository whose SaveScanResult returns an error:
\* the result is tagged, the error is logged and the goroutine goes on
ExecSaveResultFails(id) ==
    /\ tasks[id].pc = "saveResult"
    /\ tasks' = [tasks EXCEPT ![id].pc = "setCompletedAt",
                              ![id].result = [@ EXCEPT !.ScanID = scanObj[id].ID,
                                                       !.UserID = scanObj[id].UserID]]
    /\ UNCHANGED <<activeScans, scanObj, repoScans, repoResults, startCalls, cancelCalls, getCalls, clock, storeVars, repoRet, adapterCall, mu, reaper>>

\* ExecUpdateFinalFails returning from executeScan when the update fails
ExecUpdateFinalFailsReturns(id) ==
    /\ tasks[id].pc = "updateFinal"
    /\ tasks' = [tasks EXCEPT ![id].pc = "done"]
    /\ UNCHANGED <<activeScans, scanObj, repoScans, repoResults, startCalls, cancelCalls, getCalls, clock, storeVars, repoRet, adapterCall, mu, reaper>>

\* lines 253-258 with a ScanRepository whose UpdateScan returns an error: the
\* error is logged and the goroutine goes on to line 261
ExecUpdateFinalFails(id) ==
    /\ tasks[id].pc = "updateFinal"
    /\ tasks' = [tasks EXCEPT ![id].pc = "remove"]
    /\ UNCHANGED <<activeScans, scanObj, repoScans, repoResults, startCalls, cancelCalls, getCalls, clock, storeVars, repoRet, adapterCall, mu, reaper>>

executeScan(id) ==
    \/ ExecSetRunning(id)
    \/ ExecSetStartedAt(id)
    \/ ExecSetProgress0(id)
    \/ ExecUpdateRunning(id)
    \/ ExecExecuteScan(id)
    \/ ExecSetFailed(id)
    \/ ExecSetError(id)
    \/ ExecSetCompleted(id)
    \/ ExecSetProgress100(id)
    \/ ExecSetResultID(id)
    \/ ExecSaveResult(id)
    \/ ExecSetCompletedAt(id)
    \/ ExecUpdateFinal(id)
    \/ ExecRemove(id)

\* ------------------------------------------------------- GetScan, CancelScan
\* ScanService.GetScan as one observation: the pointer registered in
\* activeScans if there is one, else a copy of the repository's record
GetScanFound(id) == id \in activeScans \/ id \in DOMAIN repoScans
GetScan(id) == IF id \in activeScans THEN scanObj[id] ELSE repoScans[id]

\* The ids a caller can ask for: an id becomes known outside StartScan when
\* the scan is saved and returned (lines 85-95), which is when its goroutine
\* is launched; any other id is one that no scan ever gets.
RequestIds == {id \in ScanIds : tasks[id].pc # "none"} \cup {UnknownScanId}

\* GetScan without lines 101-106: the lookup goes to the repository even for
\* a registered scan
GetScanActiveSkipsActiveSet(g, id) ==
    /\ getCalls[g].pc = "idle"
    /\ \A b \in GetCallers : b < g => getCalls[b].pc # "idle"
    /\ getCalls' = [getCalls EXCEPT ![g] = [@ EXCEPT !.pc = "getRepo", !.id = id]]
    /\ UNCHANGED <<activeScans, scanObj, repoScans, repoResults, startCalls, cancelCalls, tasks, clock, storeVars, repoRet, adapterCall, mu, reaper>>

\* GetScan lines 101-106, called on its own: the lookup in activeScans under
\* s.mu; a hit returns the registered pointer
GetScanActive(g, id) ==
    /\ getCalls[g].pc = "idle"
    \* the invocations are numbered in the order in which they are made
    /\ \A b \in GetCallers : b < g => getCalls[b].pc # "idle"
    /\ getCalls' = [getCalls EXCEPT ![g] =
           IF id \in activeScans
           THEN [@ EXCEPT !.pc = "done", !.id = id, !.ref = "shared"]
           ELSE [@ EXCEPT !.pc = "getRepo", !.id = id]]
    /\ UNCHANGED <<activeScans, scanObj, repoScans, repoResults, startCalls, cancelCalls, tasks, clock, storeVars, repoRet, adapterCall, mu, reaper>>

\* GetScan lines 109-114: GetScanByID returns a copy of the record or an
\* error, which GetScan turns into NotFound
GetScanRepo(g) ==
    /\ getCalls[g].pc = "getRepo"
    /\ getCalls' = [getCalls EXCEPT ![g] =
           IF getCalls[g].id \in DOMAIN repoScans
           THEN [@ EXCEPT !.pc = "done", !.ref = "copy", !.scan = repoScans[getCalls[g].id]]
           ELSE [@ EXCEPT !.pc = "done", !.err = ErrNotFound]]
    /\ UNCHANGED <<activeScans, scanObj, repoScans, repoResults, startCalls, cancelCalls, tasks, clock, storeVars, repoRet, adapterCall, mu, reaper>>

GetScanCall(g) ==
    \/ \E id \in RequestIds : GetScanActive(g, id)
    \/ GetScanRepo(g)

\* the Scan that the local variable scan of CancelScan call c points to: the
\* shared object, or the private copy handed out by GetScanByID
CancelTarget(c) ==
    IF cancelCalls[c].ref = "shared" THEN scanObj[cancelCalls[c].id] ELSE cancelCalls[c].copy

\* CancelScan line 130, GetScan lines 101-106: the lookup in activeScans
CancelGetActive(c, id) ==
    /\ cancelCalls[c].pc = "idle"
    \* the invocations are numbered in the order in which they are made
    /\ \A b \in CancelCallers : b < c => cancelCalls[b].pc # "idle"
    /\ cancelCalls' = [cancelCalls EXCEPT ![c] =
           IF id \in activeScans
           THEN [@ EXCEPT !.pc = "check", !.id = id, !.ref = "shared"]
           ELSE [@ EXCEPT !.pc = "getRepo", !.id = id]]
    /\ UNCHANGED <<activeScans, scanObj, repoScans, repoResults, startCalls, tasks, getCalls, clock, storeVars, repoRet, adapterCall, mu, reaper>>

\* GetScan lines 109-114, CancelScan lines 131-133: GetScanByID
CancelGetRepo(c) ==
    /\ cancelCalls[c].pc = "getRepo"
    /\ cancelCalls' = [cancelCalls EXCEPT ![c] =
           IF cancelCalls[c].id \in DOMAIN repoScans
           THEN [@ EXCEPT !.pc = "check", !.ref = "copy", !.copy = repoScans[cancelCalls[c].id]]
           ELSE [@ EXCEPT !.pc = "done", !.err = ErrNotFound]]
    /\ UNCHANGED <<activeScans, scanObj, repoScans, repoResults, startCalls, tasks, getCalls, clock, storeVars, repoRet, adapterCall, mu, reaper>>

\* CancelScan lines 136-138: the status check
CancelCheck(c) ==
    /\ cancelCalls[c].pc = "check"
    /\ cancelCalls' = [cancelCalls EXCEPT ![c] =
           IF CancelTarget(c).Status # ScanStatusRunning /\ CancelTarget(c).Status # ScanStatusPending
           THEN [@ EXCEPT !.pc = "done", !.err = ErrInvalidInput]
           ELSE [@ EXCEPT !.pc = "setCancelled"]]
    /\ UNCHANGED <<activeScans, scanObj, repoScans, repoResults, startCalls, tasks, getCalls, clock, storeVars, repoRet, adapterCall, mu, reaper>>

\* the statement of CancelScan at position from of call c is an assignment to
\* fields of *scan
CancelWrites(c, from, to, obj) ==
    /\ cancelCalls[c].pc = from
    /\ IF cancelCalls[c].ref = "shared"
       THEN /\ scanObj' = [scanObj EXCEPT ![cancelCalls[c].id] = obj]
            /\ cancelCalls' = [cancelCalls EXCEPT ![c].pc = to]
       ELSE /\ cancelCalls' = [cancelCalls EXCEPT ![c].pc = to, ![c].copy = obj]
            /\ UNCHANGED scanObj
    /\ UNCHANGED <<activeScans, repoScans, repoResults, startCalls, tasks, getCalls, clock, storeVars, repoRet, adapterCall, mu, reaper>>

\* line 141: scan.Status = ScanStatusCancelled
CancelSetCancelled(c) ==
    CancelWrites(c, "setCancelled", "setCompletedAt",
                 [CancelTarget(c) EXCEPT !.Status = ScanStatusCancelled])

\* lines 142-143: scan.CompletedAt = &now
CancelSetCompletedAt(c) ==
    CancelWrites(c, "setCompletedAt", "update",
                 [CancelTarget(c) EXCEPT !.CompletedAt = clock])

\* lines 146-148: UpdateScan(scan)
CancelUpdate(c) ==
    /\ cancelCalls[c].pc = "update"
    /\ repoScans' = UpdateScanMap(CancelTarget(c))
    /\ cancelCalls' = [cancelCalls EXCEPT ![c] =
           IF UpdateScanErr(CancelTarget(c)) # NoErr
           THEN [@ EXCEPT !.pc = "done", !.err = ErrInternal]
           ELSE [@ EXCEPT !.pc = "remove"]]
    /\ UNCHANGED <<activeScans, scanObj, repoResults, startCalls, tasks, getCalls, clock, storeVars, repoRet, adapterCall, mu, reaper>>

\* lines 146-148 with a ScanRepository whose UpdateScan returns an error:
\* CancelScan returns Internal
CancelUpdateFails(c) ==
    /\ cancelCalls[c].pc = "update"
    /\ cancelCalls' = [cancelCalls EXCEPT ![c].pc = "done", ![c].err = ErrInternal]
    /\ UNCHANGED <<activeScans, scanObj, repoScans, repoResults, startCalls, tasks, getCalls, clock, storeVars, repoRet, adapterCall, mu, reaper>>

\* CancelRemove that also ends the executor call of the scan, as a cancelled
\* context would
CancelRemoveStopsExecutor(c) ==
    /\ cancelCalls[c].pc = "remove"
    /\ activeScans' = activeScans \ {cancelCalls[c].id}
    /\ cancelCalls' = [cancelCalls EXCEPT ![c].pc = "returned"]
    /\ tasks' = [tasks EXCEPT ![cancelCalls[c].id] =
           IF @.pc = "execute"
           THEN [@ EXCEPT !.pc = "setFailed", !.err = "scan was cancelled",
                          !.errType = ErrTimeout, !.ctxErr = ContextCanceled]
           ELSE @]
    /\ UNCHANGED <<scanObj, repoScans, repoResults, startCalls, getCalls, clock, storeVars, repoRet, adapterCall, mu, reaper>>

\* lines 151-155: delete(s.activeScans, id) under s.mu, return nil
CancelRemove(c) ==
    /\ cancelCalls[c].pc = "remove"
    /\ activeScans' = activeScans \ {cancelCalls[c].id}
    /\ cancelCalls' = [cancelCalls EXCEPT ![c].pc = "returned"]
    /\ UNCHANGED <<scanObj, repoScans, repoResults, startCalls, tasks, getCalls, clock, storeVars, repoRet, adapterCall, mu, reaper>>

CancelScan(c) ==
    \/ \E id \in RequestIds : CancelGetActive(c, id)
    \/ CancelGetRepo(c)
    \/ CancelCheck(c)
    \/ CancelSetCancelled(c)
    \/ CancelSetCompletedAt(c)
    \/ CancelUpdate(c)
    \/ CancelRemove(c)

\* -------------------------------------------------------------- StartScan
StartScan(c) ==
    \/ \E userID \in Users, options \in OptionChoices : StartScanValidate(c, userID, options)
    \/ StartScanAdmit(c)
    \/ StartScanSave(c)

\* ------------------------------------------- MemoryScanRepository, by reference
\* A Scan or ScanResult as Go lays it out: Status stands for the fields held
\* by value, Elems is the address of the backing array of a slice field
\* (Options.ExtraOptions of a Scan, Hosts of a ScanResult), CompletedAt is
\* the address a *time.Time field points to.

\* the caller builds a Scan whose slice and pointer fields refer to new cells
NewScanStruct(h, id, v) ==
    /\ held[h].kind = "none"
    \* the variables are used in order
    /\ \A b \in Holders : b < h => held[b].kind # "none"
    /\ Len(heap) + 2 <= MaxAddrs
    /\ heap' = heap \o <<v, v>>
    /\ held' = [held EXCEPT ![h] = [kind |-> "scan", ID |-> id, Status |-> v,
                                    Elems |-> Len(heap) + 1, CompletedAt |-> Len(heap) + 2]]
    /\ UNCHANGED <<serviceVars, repoRet, adapterCall, mu, reaper, storedScans, storedResults>>

\* the caller builds a ScanResult whose Hosts slice refers to a new cell
NewResultStruct(h, id, v) ==
    /\ held[h].kind = "none"
    /\ \A b \in Holders : b < h => held[b].kind # "none"
    /\ Len(heap) + 1 <= MaxAddrs
    /\ heap' = heap \o <<v>>
    /\ held' = [held EXCEPT ![h] = [kind |-> "result", ID |-> id, Status |-> v,
                                    Elems |-> Len(heap) + 1, CompletedAt |-> NilAddr]]
    /\ UNCHANGED <<serviceVars, repoRet, adapterCall, mu, reaper, storedScans, storedResults>>

\* repository.go lines 39-53: scanCopy := *scan copies the struct, and with
\* it the slice header and the pointer, not what they refer to
SaveScan(h) ==
    /\ held[h].kind = "scan"
    /\ storedScans' = (held[h].ID :> held[h]) @@ storedScans
    /\ UNCHANGED <<serviceVars, repoRet, adapterCall, mu, reaper, heap, storedResults, held>>

\* repository.go lines 56-74: the same for a scan that is stored already
UpdateScan(h) ==
    /\ held[h].kind = "scan"
    /\ held[h].ID \in DOMAIN storedScans
    /\ storedScans' = (held[h].ID :> held[h]) @@ storedScans
    /\ UNCHANGED <<serviceVars, repoRet, adapterCall, mu, reaper, heap, storedResults, held>>

\* repository.go lines 77-89: scanCopy := *scan; return &scanCopy
GetScanByID(h, id) ==
    /\ id \in DOMAIN storedScans
    /\ held' = [held EXCEPT ![h] = storedScans[id]]
    /\ UNCHANGED <<serviceVars, repoRet, adapterCall, mu, reaper, heap, storedScans, storedResults>>

\* repository.go lines 148-162: resultCopy := *result
SaveScanResult(h) ==
    /\ held[h].kind = "result"
    /\ storedResults' = (held[h].ID :> held[h]) @@ storedResults
    /\ UNCHANGED <<serviceVars, repoRet, adapterCall, mu, reaper, heap, storedScans, held>>

\* repository.go lines 165-177: resultCopy := *result; return &resultCopy
GetScanResultByID(h, id) ==
    /\ id \in DOMAIN storedResults
    /\ held' = [held EXCEPT ![h] = storedResults[id]]
    /\ UNCHANGED <<serviceVars, repoRet, adapterCall, mu, reaper, heap, storedScans, storedResults>>

\* the caller assigns to a field held by value: scan.Status = v
CallerSetsField(h, v) ==
    /\ held[h].kind # "none"
    /\ held[h].Status # v
    /\ held' = [held EXCEPT ![h].Status = v]
    /\ UNCHANGED <<serviceVars, repoRet, adapterCall, mu, reaper, heap, storedScans, storedResults>>

\* the caller assigns to an element of a slice field:
\* scan.Options.ExtraOptions[0] = v, result.Hosts[0] = v
CallerSetsElement(h, v) ==
    /\ held[h].kind # "none"
    /\ held[h].Elems # NilAddr
    /\ heap[held[h].Elems] # v
    /\ heap' = [heap EXCEPT ![held[h].Elems] = v]
    /\ UNCHANGED <<serviceVars, repoRet, adapterCall, mu, reaper, storedScans, storedResults, held>>

\* the caller assigns through a timestamp pointer: *scan.CompletedAt = v
CallerSetsTimestamp(h, v) ==
    /\ held[h].kind = "scan"
    /\ held[h].CompletedAt # NilAddr
    /\ heap[held[h].CompletedAt] # v
    /\ heap' = [heap EXCEPT ![held[h].CompletedAt] = v]
    /\ UNCHANGED <<serviceVars, repoRet, adapterCall, mu, reaper, storedScans, storedResults, held>>

\* the callers of the repository and the repository
NextStore ==
    \/ \E h \in Holders, id \in StructIds, v \in FieldValues : NewScanStruct(h, id, v)
    \/ \E h \in Holders, id \in StructIds, v \in FieldValues : NewResultStruct(h, id, v)
    \/ \E h \in Holders : UpdateScan(h)
    \/ \E h \in Holders : SaveScan(h)
    \/ \E h \in Holders, id \in StructIds : GetScanByID(h, id)
    \/ \E h \in Holders : SaveScanResult(h)
    \/ \E h \in Holders, id \in StructIds : GetScanResultByID(h, id)
    \/ \E h \in Holders, v \in FieldValues : CallerSetsField(h, v)
    \/ \E h \in Holders, v \in FieldValues : CallerSetsElement(h, v)
    \/ \E h \in Holders, v \in FieldValues : CallerSetsTimestamp(h, v)

SpecStore == Init /\ [][NextStore]_vars

\* what GetScanByID and GetScanResultByID hand out for a stored struct, with
\* the slice elements and the timestamp read through its references
Deref(r) ==
    [ID |-> r.ID,
     Status |-> r.Status,
     Elems |-> IF r.Elems = NilAddr THEN "" ELSE heap[r.Elems],
     CompletedAt |-> IF r.CompletedAt = NilAddr THEN "" ELSE heap[r.CompletedAt]]

StoredScansView == [id \in DOMAIN storedScans |-> Deref(storedScans[id])]
StoredResultsView == [id \in DOMAIN storedResults |-> Deref(storedResults[id])]

\* ------------------------------------- MemoryScanRepository, called directly
\* a Scan that a client of the repository passes in
ClientScan(id, userID, resultID) ==
    [ID |-> id,
     UserID |-> userID,
     Options |-> MkOptions("10.0.0.5", "22,80", "CONNECT", 4, FALSE, FALSE, FALSE, <<>>, 5),
     Status |-> ScanStatusPending,
     Progress |-> 0,
     CreatedAt |-> clock,
     StartedAt |-> 0,
     CompletedAt |-> 0,
     Error |-> "",
     ResultID |-> resultID]

\* a ScanResult that a client of the repository passes in
ClientResult(id, scanID) ==
    [ID |-> id, ScanID |-> scanID, UserID |-> "u1", Command |-> ""]

\* the result ids a client uses: none, or the one of a scan
ClientResultIds(id) == {0, NewResultId(id)}

\* repository.go lines 39-53: SaveScan(scan) stores the scan and returns nil
RepoSaveScan(scan) ==
    /\ repoScans' = SaveScanMap(scan)
    /\ repoRet' = [NoReturn EXCEPT !.op = "SaveScan", !.id = scan.ID]
    /\ UNCHANGED <<activeScans, scanObj, repoResults, startCalls, cancelCalls, tasks, getCalls, clock, storeVars, adapterCall, mu, reaper>>

\* repository.go lines 56-74: UpdateScan(scan)
RepoUpdateScan(scan) ==
    /\ repoScans' = UpdateScanMap(scan)
    /\ repoRet' = [NoReturn EXCEPT !.op = "UpdateScan", !.id = scan.ID, !.err = UpdateScanErr(scan)]
    /\ UNCHANGED <<activeScans, scanObj, repoResults, startCalls, cancelCalls, tasks, getCalls, clock, storeVars, adapterCall, mu, reaper>>

\* the map after DeleteScan(id) of a map in which id is a key
DeleteMap(m, id) == [k \in DOMAIN m \ {id} |-> m[k]]

\* repository.go lines 132-145: DeleteScan(id)
DeleteScan(id) ==
    /\ IF id \notin DOMAIN repoScans
       THEN /\ repoRet' = [NoReturn EXCEPT !.op = "DeleteScan", !.id = id, !.err = ErrNotFound]
            /\ UNCHANGED repoScans
       ELSE /\ repoScans' = DeleteMap(repoScans, id)
            /\ repoRet' = [NoReturn EXCEPT !.op = "DeleteScan", !.id = id]
    /\ UNCHANGED <<activeScans, scanObj, repoResults, startCalls, cancelCalls, tasks, getCalls, clock, storeVars, adapterCall, mu, reaper>>

\* repository.go lines 148-162: SaveScanResult(result) stores it, returns nil
RepoSaveScanResult(result) ==
    /\ repoResults' = SaveScanResultMap(result)
    /\ repoRet' = [NoReturn EXCEPT !.op = "SaveScanResult", !.id = result.ID]
    /\ UNCHANGED <<activeScans, scanObj, repoScans, startCalls, cancelCalls, tasks, getCalls, clock, storeVars, adapterCall, mu, reaper>>

\* repository.go lines 180-193: DeleteScanResult(id)
DeleteScanResult(id) ==
    /\ IF id \notin DOMAIN repoResults
       THEN /\ repoRet' = [NoReturn EXCEPT !.op = "DeleteScanResult", !.id = id, !.err = ErrNotFound]
            /\ UNCHANGED repoResults
       ELSE /\ repoResults' = DeleteMap(repoResults, id)
            /\ repoRet' = [NoReturn EXCEPT !.op = "DeleteScanResult", !.id = id]
    /\ UNCHANGED <<activeScans, scanObj, repoScans, startCalls, cancelCalls, tasks, getCalls, clock, storeVars, adapterCall, mu, reaper>>

\* the Scan a client passes to UpdateScan: the stored one with a result id
\* set, or one that was never saved
UpdateArgument(id, resultID) ==
    IF id \in DOMAIN repoScans
    THEN [repoScans[id] EXCEPT !.ResultID = resultID]
    ELSE ClientScan(id, "u1", resultID)

\* clients that call the writing methods of the repository
NextRepoCalls ==
    \/ \E id \in ScanIds : \E r \in ClientResultIds(id) : RepoUpdateScan(UpdateArgument(id, r))
    \/ \E id \in ScanIds : RepoSaveScan(ClientScan(id, "u1", 0))
    \/ \E id \in ScanIds : DeleteScan(id)
    \/ \E id \in ScanIds : RepoSaveScanResult(ClientResult(NewResultId(id), id))
    \/ \E id \in ScanIds : DeleteScanResult(NewResultId(id))

SpecRepoCalls == Init /\ [][NextRepoCalls]_vars

\* time passes
Tick ==
    /\ clock < MaxClock
    /\ clock' = clock + 1
    /\ UNCHANGED <<activeScans, scanObj, repoScans, repoResults, startCalls, cancelCalls, tasks, getCalls, storeVars, repoRet, adapterCall, mu, reaper>>

\* the orders in which a range over a map can yield the keys in S
IterationOrders(S) ==
    {p \in [1 .. Cardinality(S) -> S] : \A i, j \in DOMAIN p : i # j => p[i] # p[j]}

\* time.Time.Before with the operands the other way round
BeforeReversed(t, u) == t > u

\* time.Time.Before
Before(t, u) == t < u

\* repository.go line 113: scans[i], scans[j] = scans[j], scans[i]
Swap(scans, i, j) == [scans EXCEPT ![i] = scans[j], ![j] = scans[i]]

\* repository.go lines 111-115: the loop over j for one i
RECURSIVE SortInner(_, _, _)
SortInner(scans, i, j) ==
    IF j > Len(scans)
    THEN scans
    ELSE SortInner(IF Before(scans[i].CreatedAt, scans[j].CreatedAt)
                   THEN Swap(scans, i, j) ELSE scans, i, j + 1)

\* repository.go lines 110-116: the loop over i
RECURSIVE SortOuter(_, _)
SortOuter(scans, i) ==
    IF i >= Len(scans) THEN scans ELSE SortOuter(SortInner(scans, i, i + 1), i + 1)

\* repository.go lines 118-128: the page of the sorted scans
Paginate(scans, limit, offset) ==
    IF offset >= Len(scans)
    THEN <<>>
    ELSE LET end == IF offset + limit > Len(scans) THEN Len(scans) ELSE offset + limit
         IN SubSeq(scans, offset + 1, end)

\* the ids of the stored scans that ListScans(userID, ...) selects, lines 98-105
Matching(userID) ==
    {id \in DOMAIN repoScans : userID = "" \/ repoScans[id].UserID = userID}

\* repository.go lines 92-129: ListScans(userID, limit, offset); the range
\* over r.scans yields the scans in an order Go does not specify
ListScans(userID, limit, offset) ==
    /\ \E order \in IterationOrders(Matching(userID)) :
         LET scans == [i \in DOMAIN order |-> repoScans[order[i]]] IN
         repoRet' = [NoReturn EXCEPT !.op = "ListScans", !.userID = userID,
                                     !.limit = limit, !.offset = offset,
                                     !.scans = Paginate(SortOuter(scans, 1), limit, offset)]
    /\ UNCHANGED <<activeScans, scanObj, repoScans, repoResults, startCalls, cancelCalls, tasks, getCalls, clock, storeVars, adapterCall, mu, reaper>>

\* the client has taken what ListScans returned
ListReturn ==
    /\ repoRet.op = "ListScans"
    /\ repoRet' = NoReturn
    /\ UNCHANGED <<activeScans, scanObj, repoScans, repoResults, startCalls, cancelCalls, tasks, getCalls, clock, storeVars, adapterCall, mu, reaper>>

\* a client that saves scans of several owners at several times and lists
\* them, one call after the other
NextRepoList ==
    \/ repoRet.op # "ListScans" /\ \E id \in ScanIds, u \in ListUsers : RepoSaveScan(ClientScan(id, u, 0))
    \/ repoRet.op # "ListScans" /\ Tick
    \/ repoRet.op # "ListScans" /\
           \E u \in ListUsers \cup {""}, limit \in 0 .. MaxPage, offset \in 0 .. MaxPage :
               ListScans(u, limit, offset)
    \/ ListReturn

SpecRepoList == Init /\ [][NextRepoList]_vars

\* ---------------------------------------------------------- cleanupOldScans
\* repository.go line 201: cutoffTime := time.Now().Add(-r.retentionPeriod)
CutoffTime == clock - RetentionPeriod

\* the first loop deleting also the scans created at the cutoff
OldScansInclusive == {id \in DOMAIN repoScans : ~Before(CutoffTime, repoScans[id].CreatedAt)}

\* lines 204-205: the scans that the first loop deletes
OldScans == {id \in DOMAIN repoScans : Before(repoScans[id].CreatedAt, CutoffTime)}

\* the first loop deleting the old scans and leaving their results
ResultsWithoutCascade == repoResults

\* lines 204-218: the results that the first loop leaves, which deletes
\* the result that an old scan refers to
ResultsAfterCascade ==
    LET referred == {repoScans[id].ResultID : id \in {o \in OldScans : repoScans[o].ResultID # 0}}
    IN [r \in DOMAIN repoResults \ referred |-> repoResults[r]]

\* the second loop deleting nothing
NoOrphans(scans, results) == {}

\* lines 222-235: the results that the second loop deletes, those that name
\* a scan which is not stored
Orphans(scans, results) ==
    {r \in DOMAIN results : results[r].ScanID # 0 /\ results[r].ScanID \notin DOMAIN scans}

\* repository.go lines 199-238: one tick of the reaper, under r.mu
cleanupOldScans ==
    LET scans == [id \in DOMAIN repoScans \ OldScans |-> repoScans[id]]
        results == ResultsAfterCascade
        orphans == Orphans(scans, results)
    IN /\ repoScans' = scans
       /\ repoResults' = [r \in DOMAIN results \ orphans |-> results[r]]
       /\ repoRet' = [NoReturn EXCEPT !.op = "cleanupOldScans",
                                      !.cleanedScans = OldScans,
                                      !.cleanedResults = orphans]
       /\ UNCHANGED <<activeScans, scanObj, startCalls, cancelCalls, tasks, getCalls, clock, storeVars, adapterCall, mu, reaper>>

\* clients that save, update and delete scans and results while time passes
\* and the reaper runs
NextReaper ==
    \/ \E id \in ScanIds : \E r \in ClientResultIds(id) : RepoUpdateScan(UpdateArgument(id, r))
    \/ \E id \in ScanIds : RepoSaveScan(ClientScan(id, "u1", 0))
    \/ \E id \in ScanIds : DeleteScan(id)
    \/ \E id \in ScanIds : \E scanID \in {0, id} :
           RepoSaveScanResult(ClientResult(NewResultId(id), scanID))
    \/ Tick
    \/ cleanupOldScans

SpecReaper == Init /\ [][NextReaper]_vars

\* clients that save scans and their results as executeScan does, while time
\* passes and the reaper runs
NextReaperKeep ==
    \/ \E id \in ScanIds : id \in DOMAIN repoResults /\ RepoUpdateScan(UpdateArgument(id, NewResultId(id)))
    \/ \E id \in ScanIds : id \notin DOMAIN repoScans /\ RepoSaveScan(ClientScan(id, "u1", 0))
    \/ \E id \in ScanIds : id \in DOMAIN repoScans /\ RepoSaveScanResult(ClientResult(NewResultId(id), id))
    \/ Tick
    \/ cleanupOldScans

SpecReaperKeep == Init /\ [][NextReaperKeep]_vars

\* ------------------------------------ cleanupOldScans, statement by statement
\* r.mu.Lock() has returned: no goroutine holds r.mu
Lock == mu = Unlocked

\* a reader that does not wait for r.mu
RLockNotTaken == TRUE

\* r.mu.RLock() has returned: no writer holds r.mu
RLock == mu = Unlocked

\* repository.go lines 77-89: GetScanByID(id)
RepoGetScanByID(id) ==
    /\ repoRet' = [NoReturn EXCEPT !.op = "GetScanByID", !.id = id,
                                   !.err = IF id \in DOMAIN repoScans THEN NoErr ELSE ErrNotFound,
                                   !.scans = IF id \in DOMAIN repoScans THEN <<repoScans[id]>> ELSE <<>>]
    /\ UNCHANGED <<activeScans, scanObj, repoScans, repoResults, startCalls, cancelCalls, tasks, getCalls, clock, storeVars, adapterCall, mu, reaper>>

\* repository.go lines 165-177: GetScanResultByID(id)
RepoGetScanResultByID(id) ==
    /\ repoRet' = [NoReturn EXCEPT !.op = "GetScanResultByID", !.id = id,
                                   !.err = IF id \in DOMAIN repoResults THEN NoErr ELSE ErrNotFound]
    /\ UNCHANGED <<activeScans, scanObj, repoScans, repoResults, startCalls, cancelCalls, tasks, getCalls, clock, storeVars, adapterCall, mu, reaper>>

\* repository.go lines 199-201: the ticker fires, the reaper takes r.mu and
\* computes the cutoff
ReaperLock ==
    /\ reaper.pc = "idle"
    /\ Lock
    /\ mu' = "cleanupOldScans"
    /\ reaper' = [NoTick EXCEPT !.pc = "scans", !.cutoffTime = CutoffTime]
    /\ UNCHANGED <<serviceVars, storeVars, repoRet, adapterCall>>

\* lines 204-218: one iteration of the loop over r.scans, which yields the
\* keys in an order Go does not specify
ReaperScan ==
    /\ reaper.pc = "scans"
    /\ \E id \in DOMAIN repoScans \ reaper.visited :
         LET scan == repoScans[id] IN
         IF Before(scan.CreatedAt, reaper.cutoffTime)
         THEN /\ repoScans' = DeleteMap(repoScans, id)
              /\ repoResults' = IF scan.ResultID # 0 /\ scan.ResultID \in DOMAIN repoResults
                                THEN DeleteMap(repoResults, scan.ResultID)
                                ELSE repoResults
              /\ reaper' = [reaper EXCEPT !.visited = @ \cup {id}, !.cleanedScans = @ \cup {id}]
         ELSE /\ reaper' = [reaper EXCEPT !.visited = @ \cup {id}]
              /\ UNCHANGED <<repoScans, repoResults>>
    /\ UNCHANGED <<activeScans, scanObj, startCalls, cancelCalls, tasks, getCalls, clock, storeVars, repoRet, adapterCall, mu>>

\* line 204: the loop over r.scans has yielded every key
ReaperScansDone ==
    /\ reaper.pc = "scans"
    /\ DOMAIN repoScans \ reaper.visited = {}
    /\ reaper' = [reaper EXCEPT !.pc = "results", !.visited = {}]
    /\ UNCHANGED <<serviceVars, storeVars, repoRet, adapterCall, mu>>

\* lines 222-235: one iteration of the loop over r.scanResults
ReaperResult ==
    /\ reaper.pc = "results"
    /\ \E r \in DOMAIN repoResults \ reaper.visited :
         IF repoResults[r].ScanID # 0 /\ repoResults[r].ScanID \notin DOMAIN repoScans
         THEN /\ repoResults' = DeleteMap(repoResults, r)
              /\ reaper' = [reaper EXCEPT !.visited = @ \cup {r}, !.cleanedResults = @ \cup {r}]
         ELSE /\ reaper' = [reaper EXCEPT !.visited = @ \cup {r}]
              /\ UNCHANGED repoResults
    /\ UNCHANGED <<activeScans, scanObj, repoScans, startCalls, cancelCalls, tasks, getCalls, clock, storeVars, repoRet, adapterCall, mu>>

\* line 237: the loop over r.scanResults is over, r.mu.Unlock()
ReaperUnlock ==
    /\ reaper.pc = "results"
    /\ DOMAIN repoResults \ reaper.visited = {}
    /\ mu' = Unlocked
    /\ reaper' = NoTick
    /\ repoRet' = [NoReturn EXCEPT !.op = "cleanupOldScans",
                                   !.cleanedScans = reaper.cleanedScans,
                                   !.cleanedResults = reaper.cleanedResults]
    /\ UNCHANGED <<serviceVars, storeVars, adapterCall>>

\* a step of the tick that holds r.mu
ReaperStep == ReaperScan \/ ReaperScansDone \/ ReaperResult \/ ReaperUnlock

\* clients that call the methods of the repository, each of which takes r.mu
\* first, while time passes and the reaper runs statement by statement
NextReaperSteps ==
    \/ Lock /\ \E id \in ScanIds : RepoUpdateScan(UpdateArgument(id, NewResultId(id)))
    \/ Lock /\ \E id \in ScanIds : RepoSaveScan(ClientScan(id, "u1", 0))
    \/ Lock /\ \E id \in ScanIds : DeleteScan(id)
    \/ Lock /\ \E id \in ScanIds : RepoSaveScanResult(ClientResult(NewResultId(id), id))
    \/ Lock /\ \E id \in ScanIds : DeleteScanResult(NewResultId(id))
    \/ RLock /\ \E id \in ScanIds : RepoGetScanByID(id)
    \/ RLock /\ \E id \in ScanIds : RepoGetScanResultByID(NewResultId(id))
    \/ RLock /\ ListScans("u1", 1, 0)
    \/ Tick
    \/ ReaperLock
    \/ ReaperScan
    \/ ReaperScansDone
    \/ ReaperResult
    \/ ReaperUnlock

SpecReaperSteps == Init /\ [][NextReaperSteps]_vars

\* -------------------------------------------------------- buildCommandArgs
\* the scan types of models.go and one that is none of them
ScanTypes == {"SYN", "CONNECT", "UDP", "VERSION", "SCRIPT", "ALL", ""}

\* the timing templates a caller can pass: in and out of 0..5
TimingTemplates == {TimingParanoid - 1, TimingParanoid, TimingNormal, TimingInsane, TimingInsane + 1}

\* the extra options a caller can pass
ExtraOptionChoices == {<<>>, <<"-Pn">>, <<"--open", "-n">>}

\* the options ExecuteScan is called with
AdapterOptions ==
    {MkOptions("10.0.0.5", ports, scanType, timing, sd, os, sc, extra, 5) :
        ports \in {"", "22,80"}, scanType \in ScanTypes, timing \in TimingTemplates,
        sd \in BOOLEAN, os \in BOOLEAN, sc \in BOOLEAN, extra \in ExtraOptionChoices}

\* grpc.go line 222: args := a.buildCommandArgs(scanOptions)
buildCommandArgs ==
    /\ adapterCall.pc = "idle"
    /\ \E scanOptions \in AdapterOptions :
         adapterCall' = [adapterCall EXCEPT !.pc = "built",
                                            !.scanOptions = scanOptions,
                                            !.args = BuildCommandArgs(scanOptions)]
    /\ UNCHANGED <<serviceVars, storeVars, repoRet, mu, reaper>>

\* grpc.go line 239: args = append(args, "-oX", tmpFileName)
AppendOutputFile ==
    /\ adapterCall.pc = "built"
    /\ adapterCall' = [adapterCall EXCEPT !.pc = "command",
                                          !.args = @ \o <<"-oX", "tmpFileName">>]
    /\ UNCHANGED <<serviceVars, storeVars, repoRet, mu, reaper>>

NextArgs == buildCommandArgs \/ AppendOutputFile

SpecArgs == Init /\ [][NextArgs]_vars

\* ---------------------------------------------------- convertToDomainModel
\* the host elements a report can hold: status, addresses and hostnames (the
\* ports, scripts, OS and metadata of a host are copied field by field and
\* decide neither which hosts are mapped nor the counts)
XmlHosts ==
    [State : {"up", "down", "unknown"},
     Addresses : { <<[Addr |-> "00:11:22:33:44:55", AddrType |-> "mac"],
                     [Addr |-> "10.0.0.6", AddrType |-> "ipv4"]>>,
                   <<[Addr |-> "fe80::1", AddrType |-> "ipv6"]>> },
     Hostnames : { <<>>, <<"a.example">> }]

\* the sequences over S of length at most n
SeqsUpTo(S, n) == UNION {[1 .. k -> S] : k \in 0 .. n}

\* the reports: the hosts and the counts of the runstats element, which nmap
\* writes on its own
Reports ==
    [Hosts : SeqsUpTo(XmlHosts, MaxHosts), Total : 0 .. MaxHosts, Up : 0 .. MaxHosts]

\* grpc.go lines 382-388: the first address of type ipv4, or ""
RECURSIVE FirstIPv4(_)
FirstIPv4(addresses) ==
    IF addresses = <<>> THEN ""
    ELSE IF Head(addresses).AddrType = "ipv4" THEN Head(addresses).Addr
    ELSE FirstIPv4(Tail(addresses))

\* lines 373-379, 382-393: the Host made of a host element
ConvertHost(xmlHost) ==
    [Status |-> xmlHost.State, IP |-> FirstIPv4(xmlHost.Addresses), Hostnames |-> xmlHost.Hostnames]

\* the test of line 369 letting every host pass that is not down
IsNotDown(xmlHost) == xmlHost.State # "down"

\* line 369: the hosts that are not skipped
IsUp(xmlHost) == xmlHost.State = "up"

\* lines 368-451: the loop over nmapXML.Hosts
RECURSIVE ConvertHosts(_)
ConvertHosts(xmlHosts) ==
    IF xmlHosts = <<>> THEN <<>>
    ELSE IF IsUp(Head(xmlHosts))
    THEN <<ConvertHost(Head(xmlHosts))>> \o ConvertHosts(Tail(xmlHosts))
    ELSE ConvertHosts(Tail(xmlHosts))

\* grpc.go lines 354-454
ConvertToDomainModel(nmapXML) ==
    [TotalHosts |-> nmapXML.Total, UpHosts |-> nmapXML.Up, Hosts |-> ConvertHosts(nmapXML.Hosts)]

\* grpc.go lines 269-278: the report is read and parsed
ReadReport(nmapXML) ==
    /\ adapterCall.pc = "idle"
    /\ adapterCall' = [adapterCall EXCEPT !.pc = "parsed", !.nmapXML = nmapXML]
    /\ UNCHANGED <<serviceVars, storeVars, repoRet, mu, reaper>>

\* grpc.go line 281: result := a.convertToDomainModel(nmapXML, startTime)
convertToDomainModel ==
    /\ adapterCall.pc = "parsed"
    /\ adapterCall' = [adapterCall EXCEPT !.pc = "converted",
                                          !.result = ConvertToDomainModel(adapterCall.nmapXML)]
    /\ UNCHANGED <<serviceVars, storeVars, repoRet, mu, reaper>>

NextAdapter ==
    \/ adapterCall.pc = "idle" /\ \E nmapXML \in Reports : ReadReport(nmapXML)
    \/ convertToDomainModel

SpecAdapter == Init /\ [][NextAdapter]_vars

\* ------------------------------------------------- ScanHandler.CancelScan
\* net/http status codes
StatusOK == 200
StatusNotFound == 404
StatusInternalServerError == 500

\* http.go lines 184-201: the status of the response to
\* DELETE /api/v1/scans/{id}, given what ScanService.CancelScan returned
CancelScanResponse(err) ==
    IF err # NoErr THEN StatusInternalServerError ELSE StatusOK

\* ------------------------------------------------------------------- Next
Next ==
    \/ \E c \in StartCallers : StartScan(c)
    \/ \E id \in ScanIds : executeScan(id)
    \/ \E c \in CancelCallers : CancelScan(c)

Spec == Init /\ [][Next]_vars

\* the orchestrator without CancelScan calls
NextNoCancel ==
    \/ \E c \in StartCallers : StartScan(c)
    \/ \E id \in ScanIds : executeScan(id)

SpecNoCancel == Init /\ [][NextNoCancel]_vars

\* executeScan against a ScanRepository whose writes may return errors
executeScanFaulty(id) ==
    \/ executeScan(id)
    \/ ExecUpdateRunningFails(id)
    \/ ExecSaveResultFails(id)
    \/ ExecUpdateFinalFails(id)

\* StartScan callers and the goroutines against a ScanRepository (the
\* interface of service.go:23-32) whose writes may return errors
NextFaulty ==
    \/ \E c \in StartCallers : StartScan(c)
    \/ \E c \in StartCallers : StartScanSaveFails(c)
    \/ \E id \in ScanIds : executeScanFaulty(id)

SpecFaulty == Init /\ [][NextFaulty]_vars

\* StartScan callers and the goroutines against a ScanRepository whose
\* SaveScan may return an error
NextSaveFaulty ==
    \/ \E c \in StartCallers : StartScan(c)
    \/ \E c \in StartCallers : StartScanSaveFails(c)
    \/ \E id \in ScanIds : executeScan(id)

SpecSaveFaulty == Init /\ [][NextSaveFaulty]_vars

\* one StartScan call and its goroutine against such a ScanRepository
NextOneScanFaulty ==
    \/ \E c \in StartCallers : (\A b \in StartCallers : c <= b) /\ StartScan(c)
    \/ \E c \in StartCallers : (\A b \in StartCallers : c <= b) /\ StartScanSaveFails(c)
    \/ \E id \in ScanIds : executeScanFaulty(id)

\* the same, with the launched goroutine scheduled until it ends and an
\* executor that returns
SpecOneScanFaultyFair ==
    /\ Init /\ [][NextOneScanFaulty]_vars
    /\ \A id \in ScanIds : WF_vars(executeScanFaulty(id))

\* one StartScan call, its goroutine and the GetScan calls
NextOneScanGet ==
    \/ \E c \in StartCallers : (\A b \in StartCallers : c <= b) /\ StartScan(c)
    \/ \E id \in ScanIds : executeScan(id)
    \/ \E g \in GetCallers : GetScanCall(g)

SpecOneScanGet == Init /\ [][NextOneScanGet]_vars

\* one StartScan call, its goroutine and the CancelScan calls
NextOneScan ==
    \/ \E c \in StartCallers : (\A b \in StartCallers : c <= b) /\ StartScan(c)
    \/ \E id \in ScanIds : executeScan(id)
    \/ \E c \in CancelCallers : CancelScan(c)

\* the same with the goroutine and every CancelScan call scheduled until it
\* ends, and an executor that returns
SpecOneScanFair ==
    /\ Init /\ [][NextOneScan]_vars
    /\ \A id \in ScanIds : WF_vars(executeScan(id))
    /\ \A c \in CancelCallers : WF_vars(CancelScan(c))

\* the options of a call that passes validateScanOptions
ValidOptions == MkOptions("10.0.0.5", "22,80", "CONNECT", 4, FALSE, FALSE, FALSE, <<>>, 5)

\* the first two StartScan callers
AdmissionCallers == {c \in StartCallers : Cardinality({b \in StartCallers : b < c}) < 2}

\* two StartScan calls with valid options, the goroutines, and one CancelScan
\* call
NextAdmission ==
    \/ \E c \in AdmissionCallers : StartScanValidate(c, "u1", ValidOptions)
    \/ \E c \in StartCallers : StartScanAdmit(c)
    \/ \E c \in StartCallers : StartScanSave(c)
    \/ \E id \in ScanIds : executeScan(id)
    \/ \E c \in CancelCallers : (\A b \in CancelCallers : c <= b) /\ CancelScan(c)

SpecAdmission == Init /\ [][NextAdmission]_vars

\* one StartScan call, its goroutine and one CancelScan call against a
\* ScanRepository whose UpdateScan may return an error to CancelScan
NextCancelFaulty ==
    \/ \E c \in StartCallers : (\A b \in StartCallers : c <= b) /\ StartScan(c)
    \/ \E id \in ScanIds : executeScan(id)
    \/ \E c \in CancelCallers : (\A b \in CancelCallers : c <= b) /\ CancelScan(c)
    \/ \E c \in CancelCallers : CancelUpdateFails(c)

SpecCancelFaulty == Init /\ [][NextCancelFaulty]_vars

\* one StartScan call and its goroutine while time passes and the reaper of
\* the repository runs
NextServiceReaper ==
    \/ \E c \in StartCallers : (\A b \in StartCallers : c <= b) /\ StartScan(c)
    \/ \E id \in ScanIds : executeScan(id)
    \/ Tick
    \/ cleanupOldScans

SpecServiceReaper == Init /\ [][NextServiceReaper]_vars

\* one StartScan call, its goroutine and the CancelScan calls while time
\* passes
NextOneScanClock ==
    \/ \E c \in StartCallers : (\A b \in StartCallers : c <= b) /\ StartScan(c)
    \/ \E id \in ScanIds : executeScan(id)
    \/ \E c \in CancelCallers : CancelScan(c)
    \/ Tick

SpecOneScanClock == Init /\ [][NextOneScanClock]_vars

\* ------------------------------------------------- ScanHandler.StartScan
\* the Err() of the context that the StartScan call which created scan id was
\* given; executeScan derives its own context from it (service.go:93, 190)
CallerCtxErr(id) ==
    IF \E c \in StartCallers : startCalls[c].scan = id
    THEN LET c == CHOOSE c \in StartCallers : startCalls[c].scan = id IN startCalls[c].ctxErr
    ELSE NoErr

\* http.go lines 95-99: StartScan has returned the scan, the handler writes
\* the 202 response and returns; the server then cancels the context of the
\* request, c.Request.Context(), which line 78 passed to StartScan
HandlerReturn(c) ==
    /\ startCalls[c].pc = "done"
    /\ startCalls[c].err = NoErr
    /\ startCalls[c].ctxErr = NoErr
    /\ startCalls' = [startCalls EXCEPT ![c].ctxErr = ContextCanceled]
    /\ UNCHANGED <<activeScans, scanObj, repoScans, repoResults, cancelCalls, tasks, getCalls, clock, storeVars, repoRet, adapterCall, mu, reaper>>

\* executeScan under a context derived from the caller's: cmd.Run ends with
\* ctx.Err() == context.Canceled only if the caller's context has ended
executeScanOfRequest(id) ==
    /\ executeScan(id)
    /\ tasks'[id].ctxErr = ContextCanceled => CallerCtxErr(id) = ContextCanceled

\* the handler's StartScan calls with valid options and their goroutines
NextRequest ==
    \/ \E c \in StartCallers : StartScanValidate(c, "u1", ValidOptions)
    \/ \E c \in StartCallers : StartScanAdmit(c)
    \/ \E c \in StartCallers : StartScanSave(c)
    \/ \E c \in StartCallers : HandlerReturn(c)
    \/ \E id \in ScanIds : executeScanOfRequest(id)

SpecRequest == Init /\ [][NextRequest]_vars

\* ------------------------------------------------------------ observations
NonTerminalStatuses == {ScanStatusPending, ScanStatusRunning}
TerminalStatuses == {ScanStatusCompleted, ScanStatusFailed, ScanStatusCancelled}

\* the ids for which a scan exists: created by StartScan or stored
KnownIds == DOMAIN scanObj \cup DOMAIN repoScans

\* the ids that GetScan finds
FoundIds == {id \in ScanIds : GetScanFound(id)}

\* the scans a caller can see: what GetScan returns, and the stored records
VisibleScans == {GetScan(id) : id \in FoundIds} \cup {repoScans[id] : id \in DOMAIN repoScans}

\* the edges of the job state machine
StatusEdges ==
    { <<ScanStatusPending, ScanStatusRunning>>,
      <<ScanStatusRunning, ScanStatusCompleted>>,
      <<ScanStatusRunning, ScanStatusFailed>>,
      <<ScanStatusPending, ScanStatusCancelled>>,
      <<ScanStatusRunning, ScanStatusCancelled>> }

\* ------------------------------------------------------------------ claims

\* C1: without CancelScan calls, the number of scans whose status is Pending
\* or Running never exceeds the maximum concurrency, and a StartScan call that
\* finds that many scans registered returns Unavailable and registers nothing;
\* a call that is admitted leaves at most the maximum registered.
C1_NonTerminalScans == {id \in FoundIds : GetScan(id).Status \in NonTerminalStatuses}
C1_AdmissionBound ==
    /\ [](Cardinality(C1_NonTerminalScans) <= MaxConcurrentScans)
    /\ [](Cardinality({id \in DOMAIN scanObj : scanObj[id].Status \in NonTerminalStatuses})
             <= MaxConcurrentScans)
    /\ [][\A c \in StartCallers :
            (startCalls[c].pc = "admit" /\ startCalls'[c].pc # "admit") =>
                IF Len_activeScans >= MaxConcurrentScans
                THEN /\ startCalls'[c].pc = "done"
                     /\ startCalls'[c].err = ErrUnavailable
                     /\ startCalls'[c].scan = 0
                     /\ activeScans' = activeScans
                ELSE /\ startCalls'[c].err = NoErr
                     /\ startCalls'[c].scan \in activeScans'
                     /\ Cardinality(activeScans') <= MaxConcurrentScans]_vars

\* C1 witness: a StartScan call was rejected with Unavailable while the
\* maximum number of scans is Pending or Running
C1_Witness ==
    /\ \E c \in StartCallers : startCalls[c].pc = "done" /\ startCalls[c].err = ErrUnavailable
    /\ Cardinality(C1_NonTerminalScans) = MaxConcurrentScans

\* C2: every change of a scan's status, in the object GetScan hands out, in the
\* stored record and in what GetScan returns, follows an edge of the state
\* machine; in particular a terminal status never changes.
C2_StatusFollowsEdges ==
    [][/\ \A id \in DOMAIN scanObj :
            scanObj'[id].Status # scanObj[id].Status =>
                <<scanObj[id].Status, scanObj'[id].Status>> \in StatusEdges
       /\ \A id \in DOMAIN repoScans :
            (id \in DOMAIN repoScans' /\ repoScans'[id].Status # repoScans[id].Status) =>
                <<repoScans[id].Status, repoScans'[id].Status>> \in StatusEdges
       /\ \A id \in FoundIds :
            (GetScanFound(id)' /\ GetScan(id)'.Status # GetScan(id).Status) =>
                <<GetScan(id).Status, GetScan(id)'.Status>> \in StatusEdges]_vars

\* C3: once a CancelScan call for a scan has returned nil, GetScan, whenever
\* it finds the scan, returns it Cancelled with a completion time.
C3_CancelledStaysCancelled ==
    \A c \in CancelCallers :
        (cancelCalls[c].pc = "returned" /\ GetScanFound(cancelCalls[c].id)) =>
            /\ GetScan(cancelCalls[c].id).Status = ScanStatusCancelled
            /\ GetScan(cancelCalls[c].id).CompletedAt # 0

\* C4: a CancelScan call never gets past its status check to write Cancelled
\* over a status that is Completed, Failed or Cancelled: between the check and
\* the write, the scan it holds is still Pending or Running.
C4_CancelNeverOverwritesTerminal ==
    \A c \in CancelCallers :
        cancelCalls[c].pc = "setCancelled" =>
            CancelTarget(c).Status \in NonTerminalStatuses

\* C5: for every scan a caller can see, the result reference is set if and
\* only if the status is Completed.
C5_ResultIffCompleted ==
    \A scan \in VisibleScans :
        (scan.ResultID # 0) <=> (scan.Status = ScanStatusCompleted)

\* C6: for every scan a caller can see, the completion time is set if and only
\* if the status is Completed, Failed or Cancelled.
C6_CompletedAtIffTerminal ==
    \A scan \in VisibleScans :
        (scan.CompletedAt # 0) <=> (scan.Status \in TerminalStatuses)

\* C7: for every scan a caller can see, the progress is 0 or 100, and it is
\* 100 only if the status is Completed.
C7_ProgressZeroOrHundred ==
    \A scan \in VisibleScans :
        /\ scan.Progress \in {0, 100}
        /\ scan.Progress = 100 => scan.Status = ScanStatusCompleted

\* C8: a StartScan call with an empty target returns InvalidInput from its
\* first step, returns no scan, and leaves activeScans, the scan objects, the
\* repository and the goroutines as they were; no scan ever has an empty target.
C8_EmptyTargetRejected ==
    /\ [](\A scan \in VisibleScans : scan.Options.Target # "")
    /\ [](\A c \in StartCallers :
            (startCalls[c].pc # "idle" /\ startCalls[c].options.Target = "") =>
                /\ startCalls[c].pc = "done"
                /\ startCalls[c].err = ErrInvalidInput
                /\ startCalls[c].scan = 0)
    /\ [][\A c \in StartCallers :
            (startCalls[c].pc = "idle" /\ startCalls'[c].pc # "idle"
                /\ startCalls'[c].options.Target = "") =>
                UNCHANGED <<activeScans, scanObj, repoScans, repoResults, tasks>>]_vars

\* C8 witness: a StartScan call with an empty target has returned InvalidInput
\* while another call's scan exists
C8_Witness ==
    /\ \E c \in StartCallers :
         /\ startCalls[c].pc = "done"
         /\ startCalls[c].options.Target = ""
         /\ startCalls[c].err = ErrInvalidInput
    /\ scanObj # <<>>

\* C9: the scan created by a StartScan call whose timeout is zero carries the
\* default timeout, so its execution context is not expired from the start.
C9_ZeroTimeoutGetsDefault ==
    \A c \in StartCallers :
        (startCalls[c].scan # 0 /\ startCalls[c].options.Timeout = 0) =>
            /\ scanObj[startCalls[c].scan].Options.Timeout = DefaultTimeout
            /\ \E o \in ExecuteScanOutcomes(scanObj[startCalls[c].scan].Options) : o.ok

\* C10: the scan created by a StartScan call whose timing level is outside
\* 0..5 carries level 3 and the executor's arguments for it contain -T3; the
\* scan created by a call with an empty port specification carries the
\* default range.
C10_TimingAndPortsGetDefaults ==
    \A c \in StartCallers :
        startCalls[c].scan # 0 =>
            LET given == startCalls[c].options
                kept == scanObj[startCalls[c].scan].Options
                args == BuildCommandArgs(kept) IN
            /\ (given.TimingTemplate < TimingParanoid \/ given.TimingTemplate > TimingInsane) =>
                   /\ kept.TimingTemplate = TimingNormal
                   /\ \E i \in 1..Len(args) : args[i] = "-T3"
            /\ given.Ports = "" => kept.Ports = DefaultPorts

\* C11: a StartScan call rejected by the admission check leaves activeScans,
\* the scan objects, the repository and the goroutines exactly as they were,
\* and no scan, record or goroutine exists on its behalf afterwards.
C11_RejectionChangesNothing ==
    /\ [][\A c \in StartCallers :
            (startCalls[c].pc = "admit" /\ startCalls'[c].err = ErrUnavailable) =>
                UNCHANGED <<activeScans, scanObj, repoScans, repoResults, tasks>>]_vars
    /\ [](LET admitted == {c \in StartCallers : startCalls[c].scan # 0} IN
          /\ Cardinality(DOMAIN scanObj) = Cardinality(admitted)
          /\ \A id \in ScanIds :
                (id \in activeScans \/ id \in DOMAIN repoScans \/ tasks[id].pc # "none") =>
                    \E c \in admitted : startCalls[c].scan = id /\ startCalls[c].err = NoErr)

\* C11 witness: a call was rejected while a scan is registered and stored
C11_Witness ==
    /\ \E c \in StartCallers : startCalls[c].err = ErrUnavailable
    /\ activeScans # {}
    /\ repoScans # <<>>

\* C12: whenever the caller of a successful StartScan reads the Scan it was
\* handed, it reads status Pending, progress 0, and the owner and target it
\* supplied.
C12_ReturnedScanStaysPending ==
    \A c \in StartCallers :
        (startCalls[c].pc = "done" /\ startCalls[c].scan # 0) =>
            LET scan == scanObj[startCalls[c].scan] IN
            /\ scan.Status = ScanStatusPending
            /\ scan.Progress = 0
            /\ scan.UserID = startCalls[c].userID
            /\ scan.Options.Target = startCalls[c].options.Target

\* the positions of executeScan after adapter.ExecuteScan has returned
AfterExecute ==
    {"setFailed", "setError", "setCompleted", "setProgress100", "setResultID",
     "saveResult", "setCompletedAt", "updateFinal", "remove", "done"}

\* C13: when SaveScan fails, StartScan returns Internal and no scan, deletes
\* the scan's registration and nothing else, and launches no goroutine; a
\* goroutine exists only for a scan that was saved.
C13_SaveFailureRollsBack ==
    /\ [][\A c \in StartCallers :
            (startCalls[c].pc = "save" /\ startCalls'[c].err # NoErr) =>
                /\ startCalls'[c].pc = "done"
                /\ startCalls'[c].err = ErrInternal
                /\ startCalls'[c].scan = 0
                /\ activeScans' = activeScans \ {startCalls[c].scan}
                /\ startCalls[c].scan \notin activeScans'
                /\ UNCHANGED <<repoScans, repoResults, tasks>>]_vars
    /\ [](\A id \in ScanIds :
            (tasks[id].pc # "none" \/ id \in activeScans) =>
                \E c \in StartCallers : startCalls[c].scan = id /\ startCalls[c].err = NoErr)
    /\ [](Len_activeScans <= MaxConcurrentScans)

\* C13 witness: a StartScan call failed with Internal and the slot it gave
\* back is held by a scan created after it
C13_Witness ==
    \E c \in StartCallers :
        /\ startCalls[c].pc = "done"
        /\ startCalls[c].err = ErrInternal
        /\ \E id \in activeScans : id > 1

\* C17: a goroutine that has ended has removed its scan from activeScans,
\* whichever of its repository writes failed; and once the executor has
\* returned, the scan eventually leaves activeScans.
C17_TaskEndReleasesSlot ==
    /\ [](\A id \in ScanIds : tasks[id].pc = "done" => id \notin activeScans)
    /\ \A id \in ScanIds : (tasks[id].pc \in AfterExecute) ~> (id \notin activeScans)

\* C17 witness: a goroutine has ended after its final UpdateScan failed (the
\* stored record has no completion time) and its scan is not registered
C17_Witness ==
    \E id \in ScanIds :
        /\ tasks[id].pc = "done"
        /\ id \notin activeScans
        /\ id \in DOMAIN repoScans
        /\ repoScans[id].CompletedAt = 0

\* C19: after the goroutine of a scan has ended, GetScan, when it finds the
\* scan, does not return it Pending or Running.
C19_EndedTaskNotNonTerminal ==
    \A id \in ScanIds :
        (tasks[id].pc = "done" /\ GetScanFound(id)) =>
            GetScan(id).Status \notin NonTerminalStatuses

\* C14: GetScan returns the registered scan when the id is in activeScans,
\* otherwise the repository's record of the id, and fails with NotFound
\* exactly when the id is in neither.
C14_GetScanLookupOrder ==
    /\ [][\A g \in GetCallers :
            /\ (getCalls[g].pc = "idle" /\ getCalls'[g].pc # "idle") =>
                   IF getCalls'[g].id \in activeScans
                   THEN /\ getCalls'[g].pc = "done"
                        /\ getCalls'[g].ref = "shared"
                        /\ getCalls'[g].err = NoErr
                   ELSE getCalls'[g].pc = "getRepo"
            /\ (getCalls[g].pc = "getRepo" /\ getCalls'[g].pc # "getRepo") =>
                   /\ getCalls'[g].pc = "done"
                   /\ getCalls[g].id \notin activeScans
                   /\ IF getCalls[g].id \in DOMAIN repoScans
                      THEN /\ getCalls'[g].ref = "copy"
                           /\ getCalls'[g].scan = repoScans[getCalls[g].id]
                           /\ getCalls'[g].err = NoErr
                      ELSE getCalls'[g].err = ErrNotFound]_vars
    /\ [](\A g \in GetCallers :
            getCalls[g].pc = "done" =>
                (getCalls[g].err = ErrNotFound <=> ~GetScanFound(getCalls[g].id)))

\* C14 witness: a GetScan call has returned the repository's record of a scan
\* that has left activeScans
C14_Witness ==
    \E g \in GetCallers :
        /\ getCalls[g].pc = "done"
        /\ getCalls[g].ref = "copy"
        /\ getCalls[g].id \in DOMAIN repoScans
        /\ getCalls[g].id \notin activeScans

\* C15: whenever GetScan returns a scan with status Completed and result id
\* r, GetScanResultByID(r) succeeds at that moment and returns a result whose
\* ScanID is the scan's id and whose UserID is the scan's user.
C15_CompletedImpliesResultRetrievable ==
    \A id \in ScanIds :
        (GetScanFound(id) /\ GetScan(id).Status = ScanStatusCompleted) =>
            /\ GetScan(id).ResultID \in DOMAIN repoResults
            /\ repoResults[GetScan(id).ResultID].ScanID = id
            /\ repoResults[GetScan(id).ResultID].UserID = GetScan(id).UserID

\* the positions of executeScan after the branch of lines 215-246
AfterOutcome == {"setCompletedAt", "updateFinal", "remove", "done"}

\* C18: when adapter.ExecuteScan returns an error, the goroutine sets the
\* scan Failed with the error's message as Error, leaves Progress 0 and
\* ResultID empty, saves no result, and no StartScan call returns the error;
\* GetScan shows the failure.
C18_ExecutorErrorStampsFailed ==
    /\ [][\A id \in ScanIds :
            (tasks[id].pc = "setFailed" /\ tasks'[id].pc # "setFailed") =>
                scanObj'[id] = [scanObj[id] EXCEPT !.Status = ScanStatusFailed]]_vars
    /\ [](\A id \in ScanIds :
            (tasks[id].pc \in AfterOutcome /\ tasks[id].err # NoErr) =>
                /\ scanObj[id].Status = ScanStatusFailed
                /\ scanObj[id].Error = tasks[id].err
                /\ scanObj[id].Error # ""
                /\ scanObj[id].Progress = 0
                /\ scanObj[id].ResultID = 0
                /\ NewResultId(id) \notin DOMAIN repoResults
                /\ \A r \in DOMAIN repoResults : repoResults[r].ScanID # id
                /\ \A c \in StartCallers :
                       startCalls[c].scan = id => startCalls[c].err = NoErr
                /\ tasks[id].pc = "done" =>
                       /\ GetScanFound(id)
                       /\ GetScan(id).Status = ScanStatusFailed
                       /\ GetScan(id).Error = tasks[id].err
                       /\ GetScan(id).Progress = 0
                       /\ GetScan(id).ResultID = 0)

\* C18 witness: the goroutine of a scan whose executor timed out has ended
\* and the stored scan is Failed with that message
C18_Witness ==
    \E id \in ScanIds :
        /\ tasks[id].pc = "done"
        /\ tasks[id].err = "scan timed out"
        /\ id \in DOMAIN repoScans
        /\ repoScans[id].Status = ScanStatusFailed
        /\ repoScans[id].Error = "scan timed out"

\* C16: every scan that StartScan has saved and launched eventually has a
\* terminal status (Completed, Failed or Cancelled), and from then on GetScan
\* returns it with a terminal status, provided its goroutine keeps being
\* scheduled and the executor returns.
C16_AdmittedScanTerminates ==
    \A id \in ScanIds :
        (tasks[id].pc # "none") ~>
            [](GetScanFound(id) /\ GetScan(id).Status \in TerminalStatuses)

\* C16 witness: the goroutine of a launched scan has ended and GetScan
\* returns the scan with a terminal status
C16_Witness ==
    \E id \in ScanIds :
        /\ tasks[id].pc = "done"
        /\ GetScanFound(id)
        /\ GetScan(id).Status \in TerminalStatuses
        /\ \E c \in StartCallers :
               startCalls[c].pc = "done" /\ startCalls[c].scan = id /\ startCalls[c].err = NoErr

\* C20: a Scan or ScanResult passed to or returned by the repository is
\* independent of the stored struct in all its parts: as long as no SaveScan,
\* UpdateScan or SaveScanResult changes the repository, what GetScanByID and
\* GetScanResultByID return does not change, whatever the callers assign to
\* their structs, slice elements and timestamps included.
C20_StoredStateIndependent ==
    [][(storedScans' = storedScans /\ storedResults' = storedResults) =>
           /\ StoredScansView' = StoredScansView
           /\ StoredResultsView' = StoredResultsView]_vars

\* C21: a scan returned by GetScan for a registered scan is a snapshot: the
\* later steps of executeScan and CancelScan do not alter what the caller
\* holds, and the status that GetScan returns changes only with a write to
\* the repository.
C21_ReturnedScanIsSnapshot ==
    /\ [][\A g \in GetCallers :
            (getCalls[g].pc = "done" /\ getCalls[g].ref = "shared") =>
                scanObj'[getCalls[g].id] = scanObj[getCalls[g].id]]_vars
    /\ [][\A id \in ScanIds :
            (GetScanFound(id) /\ GetScanFound(id)' /\ GetScan(id)'.Status # GetScan(id).Status) =>
                repoScans' # repoScans]_vars

\* C22: UpdateScan of a scan, DeleteScan and DeleteScanResult of an id that
\* has no record return NotFound and leave both maps unchanged; they succeed
\* when the record exists; UpdateScan never creates a record.
C22_MissingRecordIsNotFound ==
    /\ [][repoRet'.err = ErrNotFound => UNCHANGED <<repoScans, repoResults>>]_vars
    /\ [][(repoRet' # repoRet /\ repoRet'.op \in {"UpdateScan", "DeleteScan"}) =>
              (repoRet'.err = ErrNotFound <=> repoRet'.id \notin DOMAIN repoScans)]_vars
    /\ [][(repoRet' # repoRet /\ repoRet'.op = "DeleteScanResult") =>
              (repoRet'.err = ErrNotFound <=> repoRet'.id \notin DOMAIN repoResults)]_vars
    /\ [][repoRet'.op = "UpdateScan" => DOMAIN repoScans' = DOMAIN repoScans]_vars
    /\ [][(repoRet'.op = "DeleteScan" /\ repoRet'.err = NoErr /\ repoScans' # repoScans) =>
              repoScans' = DeleteMap(repoScans, repoRet'.id)]_vars

\* C22 witness: UpdateScan of a scan without a record has returned NotFound
\* while another scan is stored
C22_Witness ==
    /\ repoRet.op = "UpdateScan"
    /\ repoRet.err = ErrNotFound
    /\ repoRet.id \notin DOMAIN repoScans
    /\ DOMAIN repoScans # {}

\* the scans among ids that were created after t, and at t or after it
NewerThan(ids, t) == {id \in ids : repoScans[id].CreatedAt > t}
NotOlderThan(ids, t) == {id \in ids : repoScans[id].CreatedAt >= t}

C24_ReaperRemovesOldScansAndResults ==
    [][cleanupOldScans =>
         /\ \A id \in DOMAIN repoScans' : ~(repoScans'[id].CreatedAt < CutoffTime)
         /\ \A id \in DOMAIN repoScans :
                repoScans[id].CreatedAt < CutoffTime =>
                    /\ id \notin DOMAIN repoScans'
                    /\ repoScans[id].ResultID \notin DOMAIN repoResults'
                    /\ \A r \in DOMAIN repoResults' : repoResults'[r].ScanID # id]_vars

\* C24 witness: the reaper has deleted an old scan and, in its second loop,
\* a result that no deleted scan referred to, and has kept a newer scan
C24_Witness ==
    /\ repoRet.op = "cleanupOldScans"
    /\ repoRet.cleanedScans # {}
    /\ repoRet.cleanedResults # {}
    /\ repoRet.cleanedScans \cap DOMAIN repoScans = {}
    /\ DOMAIN repoScans # {}

\* C25: after one run of the reaper every stored result that names a scan
\* names a stored scan, also when the scan was removed by DeleteScan and the
\* run deletes no scan.
C25_ReaperRemovesOrphans ==
    [][cleanupOldScans =>
         \A r \in DOMAIN repoResults' :
             repoResults'[r].ScanID # 0 => repoResults'[r].ScanID \in DOMAIN repoScans']_vars

\* C25 witness: a run of the reaper that deleted no scan has deleted a result
\* whose scan is not stored
C25_Witness ==
    /\ repoRet.op = "cleanupOldScans"
    /\ repoRet.cleanedScans = {}
    /\ repoRet.cleanedResults # {}
    /\ repoRet.cleanedResults \cap DOMAIN repoResults = {}

\* C26: when cmd.Run fails, the error of ExecuteScan is decided by ctx.Err()
\* first: a cancelled context gives an error of a kind of its own, distinct
\* from Timeout and Internal, an elapsed deadline gives Timeout, and only a
\* context without error gives Internal.
C26_ContextStateDecidesErrorKind ==
    \A id \in ScanIds :
        tasks[id].errType # NoErr =>
            /\ tasks[id].ctxErr = ContextCanceled =>
                   tasks[id].errType \notin {ErrTimeout, ErrInternal}
            /\ tasks[id].ctxErr = ContextDeadlineExceeded => tasks[id].errType = ErrTimeout
            /\ tasks[id].ctxErr = NoErr => tasks[id].errType = ErrInternal

\* the positions of the hosts of the report that are up
UpPositions(nmapXML) == {i \in DOMAIN nmapXML.Hosts : nmapXML.Hosts[i].State = "up"}

\* C27: the Hosts of the mapped result are exactly the hosts of the report
\* whose state is "up", in the order of the report, and TotalHosts and
\* UpHosts are the counts of the report's run statistics, however many hosts
\* were mapped.
C27_OnlyUpHostsMappedCountsFromRunStats ==
    adapterCall.pc = "converted" =>
        LET nmapXML == adapterCall.nmapXML
            result == adapterCall.result
            ups == UpPositions(nmapXML)
        IN /\ result.TotalHosts = nmapXML.Total
           /\ result.UpHosts = nmapXML.Up
           /\ Len(result.Hosts) = Cardinality(ups)
           /\ \A i \in ups :
                  LET k == Cardinality({j \in ups : j <= i}) IN
                  /\ result.Hosts[k].Status = "up"
                  /\ result.Hosts[k].Hostnames = nmapXML.Hosts[i].Hostnames
                  /\ \/ \E a \in DOMAIN nmapXML.Hosts[i].Addresses :
                           /\ nmapXML.Hosts[i].Addresses[a].AddrType = "ipv4"
                           /\ nmapXML.Hosts[i].Addresses[a].Addr = result.Hosts[k].IP
                     \/ /\ result.Hosts[k].IP = ""
                        /\ \A a \in DOMAIN nmapXML.Hosts[i].Addresses :
                               nmapXML.Hosts[i].Addresses[a].AddrType # "ipv4"

\* C27 witness: a report with a host that is not up before one that is up
\* was mapped to a single host, with counts that differ from that
C27_Witness ==
    /\ adapterCall.pc = "converted"
    /\ Len(adapterCall.nmapXML.Hosts) = 2
    /\ adapterCall.nmapXML.Hosts[1].State # "up"
    /\ adapterCall.nmapXML.Hosts[2].State = "up"
    /\ Len(adapterCall.result.Hosts) = 1
    /\ adapterCall.result.TotalHosts = 2
    /\ adapterCall.result.UpHosts = 2

\* C28: in every interleaving of StartScan, CancelScan and the goroutines
\* the number of scans whose status is Pending or Running is at most
\* maxConcurrentScans, also after a scan was cancelled and another admitted
\* in its place.
C28_NonTerminalScansBounded ==
    Cardinality({id \in ScanIds :
                    GetScanFound(id) /\ GetScan(id).Status \in NonTerminalStatuses})
        <= MaxConcurrentScans

\* C29: DELETE /api/v1/scans/{id} for an id that is neither registered nor
\* stored is answered with status 404.
C29_UnknownScanCancelIs404 ==
    \A c \in CancelCallers :
        (cancelCalls[c].pc = "done" /\ cancelCalls[c].err = ErrNotFound) =>
            CancelScanResponse(cancelCalls[c].err) = StatusNotFound

\* C30: a step of CancelScan changes nothing but the Status and CompletedAt
\* of its scan, the stored record of that scan and the scan's registration
\* in activeScans; it leaves the goroutine of the scan and its executor call
\* as they are, and a call of the executor that was under way when
\* CancelScan returned is still under way.
C30_CancelLeavesExecutionAlone ==
    [][\A c \in CancelCallers :
         cancelCalls'[c] # cancelCalls[c] =>
             /\ tasks' = tasks
             /\ repoResults' = repoResults
             /\ activeScans' \subseteq activeScans
             /\ activeScans \ activeScans' \subseteq {cancelCalls'[c].id}
             /\ DOMAIN scanObj' = DOMAIN scanObj
             /\ \A id \in DOMAIN scanObj :
                    /\ id # cancelCalls'[c].id => scanObj'[id] = scanObj[id]
                    /\ scanObj'[id] = [scanObj[id] EXCEPT !.Status = scanObj'[id].Status,
                                                          !.CompletedAt = scanObj'[id].CompletedAt]
             /\ DOMAIN repoScans' = DOMAIN repoScans
             /\ \A id \in DOMAIN repoScans :
                    id # cancelCalls'[c].id => repoScans'[id] = repoScans[id]
             /\ UNCHANGED <<startCalls, getCalls, clock>>]_vars

\* C30 witness: CancelScan has returned nil for a scan and has removed it
\* from activeScans while the executor call of that scan is under way
C30_Witness ==
    \E c \in CancelCallers :
        /\ cancelCalls[c].pc = "returned"
        /\ cancelCalls[c].err = NoErr
        /\ cancelCalls[c].id \notin activeScans
        /\ tasks[cancelCalls[c].id].pc = "execute"
        /\ scanObj[cancelCalls[c].id].Status = ScanStatusCancelled

\* C31: a run of the reaper only deletes: every scan and result that is
\* stored after it is stored before it with the same fields, every scan
\* created at or after the cutoff is kept, and so is every result whose
\* scan is stored after the run.
C31_ReaperOnlyDeletes ==
    [][cleanupOldScans =>
         /\ \A id \in DOMAIN repoScans' :
                id \in DOMAIN repoScans /\ repoScans'[id] = repoScans[id]
         /\ \A r \in DOMAIN repoResults' :
                r \in DOMAIN repoResults /\ repoResults'[r] = repoResults[r]
         /\ \A id \in DOMAIN repoScans :
                repoScans[id].CreatedAt >= CutoffTime => id \in DOMAIN repoScans'
         /\ \A r \in DOMAIN repoResults :
                repoResults[r].ScanID \in DOMAIN repoScans' => r \in DOMAIN repoResults']_vars

\* C31 witness: the reaper has deleted an old scan and has kept a scan that
\* refers to its result together with that result
C31_Witness ==
    /\ repoRet.op = "cleanupOldScans"
    /\ repoRet.cleanedScans # {}
    /\ \E id \in DOMAIN repoScans :
           /\ repoScans[id].ResultID \in DOMAIN repoResults
           /\ repoResults[repoScans[id].ResultID].ScanID = id

\* C32: while a run of the reaper holds r.mu, no other operation of the
\* repository takes effect: every step that is not a step of the run leaves
\* the scans and the results as they are and returns nothing to a caller, so
\* no caller sees the state between two deletions of the run.
C32_ReaperTickIsAtomic ==
    [][mu # Unlocked => (ReaperStep \/ UNCHANGED <<repoScans, repoResults, repoRet>>)]_vars

\* C32 witness: a run of the reaper is between its two loops, has deleted an
\* old scan and still stores a result that names it
C32_Witness ==
    /\ mu = "cleanupOldScans"
    /\ reaper.pc = "results"
    /\ \E r \in DOMAIN repoResults : repoResults[r].ScanID \in reaper.cleanedScans

\* the flag of a scan type: at most one
ScanModeFlag(scanType) ==
    IF scanType = "SYN" THEN <<"-sS">>
    ELSE IF scanType = "CONNECT" THEN <<"-sT">>
    ELSE IF scanType = "UDP" THEN <<"-sU">>
    ELSE IF scanType = "VERSION" THEN <<"-sV">>
    ELSE IF scanType = "SCRIPT" THEN <<"-sC">>
    ELSE IF scanType = "ALL" THEN <<"-A">>
    ELSE <<>>

\* how often flag occurs in args
Occurrences(args, flag) == Cardinality({i \in DOMAIN args : args[i] = flag})

\* C33: the argument list is the target, then "-p" and the ports when the
\* ports are not empty, then at most one scan-mode flag, then the timing flag
\* when the template is within 0..5, then "-sV", "-O" and "-sC" for the
\* switches that are on, then the extra options as given; with the VERSION
\* scan type and service detection "-sV" is there twice.
C33_ArgumentOrder ==
    adapterCall.pc = "built" =>
        LET o == adapterCall.scanOptions
            args == adapterCall.args
            ports == IF o.Ports = "" THEN 0 ELSE 2
            mode == Len(ScanModeFlag(o.ScanType))
            timing == IF o.TimingTemplate \in 0 .. 5 THEN 1 ELSE 0
            sd == IF o.ServiceDetection THEN 1 ELSE 0
            os == IF o.OSDetection THEN 1 ELSE 0
            sc == IF o.ScriptScan THEN 1 ELSE 0
            at == 1 + ports + mode + timing
        IN /\ Len(args) = at + sd + os + sc + Len(o.ExtraOptions)
           /\ args[1] = o.Target
           /\ ports = 2 => args[2] = "-p" /\ args[3] = o.Ports
           /\ mode = 1 => args[1 + ports + 1] = ScanModeFlag(o.ScanType)[1]
           /\ timing = 1 => args[1 + ports + mode + 1] = TimingFlag(o.TimingTemplate)
           /\ sd = 1 => args[at + 1] = "-sV"
           /\ os = 1 => args[at + sd + 1] = "-O"
           /\ sc = 1 => args[at + sd + os + 1] = "-sC"
           /\ SubSeq(args, at + sd + os + sc + 1, Len(args)) = o.ExtraOptions
           /\ (o.ScanType = "VERSION" /\ o.ServiceDetection) => Occurrences(args, "-sV") = 2

\* C33 witness: arguments built for the VERSION scan type with service
\* detection, ports, a timing template in range and two extra options
C33_Witness ==
    /\ adapterCall.pc = "built"
    /\ adapterCall.scanOptions.ScanType = "VERSION"
    /\ adapterCall.scanOptions.ServiceDetection
    /\ adapterCall.scanOptions.Ports # ""
    /\ adapterCall.scanOptions.TimingTemplate = TimingInsane
    /\ Len(adapterCall.scanOptions.ExtraOptions) = 2
    /\ Len(adapterCall.args) > 6

\* C34: activeScans never holds more than maxConcurrentScans ids, and an id
\* in it was registered by a StartScan call, no CancelScan call for it has
\* returned nil and its executeScan goroutine has not ended.
C34_ActiveSetBoundedAndCurrent ==
    /\ Cardinality(activeScans) <= MaxConcurrentScans
    /\ \A id \in activeScans :
           /\ \E c \in StartCallers : startCalls[c].scan = id /\ startCalls[c].err = NoErr
           /\ tasks[id].pc # "done"
           /\ \A c \in CancelCallers :
                  ~(cancelCalls[c].id = id /\ cancelCalls[c].pc = "returned")

\* C34 witness: a CancelScan call has returned nil and removed its scan, and
\* a scan admitted after that fills the active set while the goroutine of the
\* cancelled one has not ended
C34_Witness ==
    /\ Cardinality(activeScans) = MaxConcurrentScans
    /\ \E c \in CancelCallers :
           /\ cancelCalls[c].pc = "returned"
           /\ cancelCalls[c].id \notin activeScans
           /\ tasks[cancelCalls[c].id].pc \notin {"none", "done"}

\* C35: the goroutines that are at line 213, in a call of
\* adapter.ExecuteScan that has not returned, are never more than
\* maxConcurrentScans.
C35_ExecutorInvocationsBounded ==
    Cardinality({id \in ScanIds : tasks[id].pc = "execute"}) <= MaxConcurrentScans

\* C36: the context of an executeScan goroutine ends only at its own
\* deadline: no call of the executor ends with context.Canceled and leaves
\* the scan Failed because the context given to StartScan has ended after
\* StartScan returned.
C36_CallerContextDoesNotEndScan ==
    \A id \in ScanIds :
        ~(/\ tasks[id].ctxErr = ContextCanceled
          /\ CallerCtxErr(id) = ContextCanceled
          /\ scanObj[id].Status = ScanStatusFailed)

\* C37: when CancelScan returns Internal because UpdateScan failed, GetScan
\* still reports the scan Pending or Running with no CompletedAt, and a scan
\* that was registered in activeScans still is.
C37_FailedCancelChangesNothing ==
    [][\A c \in CancelCallers :
           CancelUpdateFails(c) =>
               LET id == cancelCalls[c].id IN
               /\ GetScan(id)'.Status \in NonTerminalStatuses
               /\ GetScan(id)'.CompletedAt = 0
               /\ id \in activeScans => id \in activeScans']_vars

\* C38: a scan that StartScan has saved and that is still registered in
\* activeScans has its record in the repository, so that GetScan and
\* ListScans both find it and the goroutine's UpdateScan does not fail.
C38_ActiveScanIsStored ==
    \A id \in activeScans : tasks[id].pc # "none" => id \in DOMAIN repoScans

\* C39: for every scan CreatedAt <= StartedAt when StartedAt is set, and
\* StartedAt <= CompletedAt when both are set, so that the Duration of
\* CreateScanSummary is not negative.
C39_TimestampsOrdered ==
    \A id \in DOMAIN scanObj :
        /\ scanObj[id].StartedAt # 0 => scanObj[id].CreatedAt <= scanObj[id].StartedAt
        /\ (scanObj[id].StartedAt # 0 /\ scanObj[id].CompletedAt # 0) =>
               scanObj[id].StartedAt <= scanObj[id].CompletedAt
====
